---- MODULE Spec2Model ----
(***************************************************************************)
(* Transaction construction and submission pipeline of the Blendifi        *)
(* dashboard: the facade functions of src/lib/contract-calls.ts            *)
(* (stakeBTokens, unstakeBTokens, swapTokens, supplyToBlend,               *)
(* borrowFromBlend), the confirmation loop waitForTransaction, and the     *)
(* screen handlers handleSwap and handleBorrow that drive them and the     *)
(* notification queue.                                                     *)
(*                                                                         *)
(* One action of the model is one event-loop turn: the completion of the   *)
(* awaited call, the synchronous code that follows it, and the issue of    *)
(* the next awaited call.  `calls` logs every external call at the moment  *)
(* it is issued.                                                           *)
(***************************************************************************)
EXTENDS Integers, Sequences, FiniteSets, TLC

(***************************************************************************)
(* Bounds of the model                                                     *)
(***************************************************************************)
\* number of notifications created in one behaviour
MaxToasts == 1

(***************************************************************************)
(* Program constants                                                       *)
(***************************************************************************)
\* contract-calls.ts:71  const maxAttempts = 30
maxAttempts_29 == 30 - 1
maxAttempts == 30

\* contract-calls.ts:87  setTimeout(resolve, 1000)
POLL_INTERVAL_MS == 1000

\* the facade functions
Ops == {"stake", "unstake", "swap", "supply", "borrow"}

NoResult == [kind |-> "none", value |-> <<>>]
Return(v) == [kind |-> "return", value |-> v]
Throw(e)  == [kind |-> "throw", value |-> e]

Call(fn, arg) == [fn |-> fn, arg |-> arg]

VARIABLES
    freighterInstalled, \* 'stellar' in window
    op,                 \* facade function being executed, "none" when idle
    pc,                 \* the await the facade call is suspended on
    calls,              \* external calls issued by the current facade call
    sim,                \* response of simulateTransaction
    signed,             \* response of signTransaction
    sent,               \* response of sendTransaction
    attempts,           \* loop counter of waitForTransaction
    clock,              \* timer delay elapsed inside waitForTransaction, in ms
    pollAt,             \* value of clock when the latest getTransaction was issued
    pollGap,            \* timer delay between the two latest getTransaction calls
    lastPoll,           \* response of the latest getTransaction
    failedSeen,         \* some getTransaction of this call returned FAILED
    result,             \* how the facade call ended
    network             \* what getNetwork() resolved to in this call

pipeVars == <<freighterInstalled, op, pc, calls, sim, signed, sent, attempts,
              clock, pollAt, pollGap, lastPoll, failedSeen, result, network>>

VARIABLES
    caller,             \* who awaits the facade call: "none", "direct", a handler
    hpc,                \* position of the screen handler: "idle", "facade", "reload"
    isConnected,        \* wallet context: isConnected
    publicKey,          \* wallet context: publicKey ("null" when absent)
    toasts,             \* notification queue (state of ToastProvider)
    nextToastId,        \* notifications created so far, plus one
    toastId,            \* id returned by showToast to the running handler
    loading,            \* the screen's loading flag
    errors,             \* the screen's form errors
    amount,             \* the screen's amount field
    asset,              \* Borrow: selected asset
    userPosition,       \* Borrow: position loaded by loadUserData
    projectedHealth,    \* Borrow: projected health factor as displayed
    maxBorrowable,      \* Borrow: maximum borrowable as displayed
    fromAsset,          \* Swap: asset sold
    toAsset,            \* Swap: asset bought
    balance,            \* Swap: balance of fromAsset as displayed
    loads,              \* reads in flight outside a handler (balance, position)
    screen,             \* the screen that is mounted ("none": no screen)
    submitted           \* the request the handler handed to the facade

VARIABLES
    stakedAmount,       \* Stake: stakedAmount as displayed, in thousandths
    suppliedAmount      \* Supply: supplyInfo.suppliedAmount, in thousandths

mockVars == <<stakedAmount, suppliedAmount>>

VARIABLES
    adapter,            \* which wallet adapter the page is built with
    sessionNetwork,     \* wallet session: network ("null" when absent)
    walletId,           \* wallet session: selected wallet ("null" when absent)
    isLoading,          \* wallet session: a connect() is in progress
    error,              \* wallet session: error ("null" when absent)
    cpc,                \* the await the running connect() is suspended on
    connectResult,      \* what the latest connect() resolved with
    modal,              \* the wallet selection modal of the kit
    lastQuery           \* the latest adapter query and its outcome

sessionVars == <<adapter, sessionNetwork, walletId, isLoading, error, cpc,
                 connectResult, modal, lastQuery>>

VARIABLES
    probe               \* inputs and results of the pure functions under check

extVars == <<mockVars, sessionVars, probe>>

uiVars == <<caller, hpc, isConnected, publicKey, toasts, nextToastId, toastId,
            loading, errors, amount, asset, userPosition, projectedHealth,
            maxBorrowable, fromAsset, toAsset, balance, loads, screen, submitted,
            extVars>>

vars == <<pipeVars, uiVars>>

(***************************************************************************)
(* Input domains.  A facade function called directly draws the responses   *)
(* of the wallet and of the RPC server from the wider sets; on a screen,   *)
(* where a handler carries the outcome on and the payloads are of no       *)
(* consequence to it, one payload of each kind is drawn.                   *)
(***************************************************************************)
\* what the wallet's getNetwork() may resolve to
NetworkResults ==
    IF screen = "none" THEN {"TESTNET", "PUBLIC", "error"} ELSE {"TESTNET", "error"}

\* transaction hashes the RPC server may hand out
Hashes == IF screen = "none" THEN {"h1", "h2"} ELSE {"h1"}

\* resultMetaXdr payloads of a FAILED transaction
Metas == IF screen = "none" THEN {"meta1", "meta2"} ELSE {"meta1"}

\* diagnostic strings of a failed simulation
SimErrors == {"HostError"}

\* return values of a successful simulation (retval may be absent)
SimRetvals == IF screen = "none" THEN {"noRetval", "reward7"} ELSE {"noRetval"}

\* outcomes of wallet.signTransaction
SignResults == {"signed", "userRejected", "errorNoMessage", "throws"}

\* immediate statuses of sendTransaction
SendStatuses == {"PENDING", "DUPLICATE", "TRY_AGAIN_LATER", "ERROR"}

\* outcomes of one getTransaction poll
PollOutcomes ==
    {[status |-> "throws",    meta |-> "-"],
     [status |-> "NOT_FOUND", meta |-> "-"],
     [status |-> "SUCCESS",   meta |-> "-"]}
    \cup {[status |-> "FAILED", meta |-> m] : m \in Metas}

NoSim  == [kind |-> "none", error |-> "-", retval |-> "-"]
NoSent == [status |-> "none", hash |-> "-"]
NoPoll == [status |-> "none", meta |-> "-"]

(***************************************************************************)
(* Helpers of contract-calls.ts                                            *)
(***************************************************************************)
\* getServerAndNetwork: every network but MAINNET/PUBLIC is served by testnet
getServerAndNetwork(n) ==
    IF n = "MAINNET" \/ n = "PUBLIC"
    THEN [sorobanServer |-> "MAINNET_SOROBAN_SERVER", networkPassphrase |-> "PUBLIC"]
    ELSE [sorobanServer |-> "TESTNET_SOROBAN_SERVER", networkPassphrase |-> "TESTNET"]

\* contract method each facade function invokes
ContractMethod(o) ==
    CASE o = "stake"   -> "stake_blend"
      [] o = "unstake" -> "unstake_blend"
      [] o = "swap"    -> "swap_tokens"
      [] o = "supply"  -> "supply_to_blend"
      [] o = "borrow"  -> "borrow_from_blend"

\* one argument of contract.call: nativeToScVal(value, {type})
ScVal(type, value) == [type |-> type, value |-> value]

\* the arguments each facade function passes to contract.call, in order
ContractArgs(o) ==
    CASE o = "stake"   -> <<ScVal("address", "userPublicKey"), ScVal("u128", "amount")>>
      [] o = "unstake" -> <<ScVal("address", "userPublicKey"), ScVal("u128", "amount")>>
      [] o = "swap"    -> <<ScVal("address", "userPublicKey"), ScVal("address", "tokenA"),
                            ScVal("address", "tokenB"), ScVal("u128", "amountIn"),
                            ScVal("u128", "minAmountOut"), ScVal("u64", "deadline")>>
      [] o = "supply"  -> <<ScVal("address", "userPublicKey"), ScVal("address", "asset"),
                            ScVal("u128", "amount"), ScVal("bool", "asCollateral")>>
      [] o = "borrow"  -> <<ScVal("address", "userPublicKey"), ScVal("address", "asset"),
                            ScVal("u128", "amount")>>

\* the function a screen calls for each operation kind; all but swapTokens
\* and borrowFromBlend are stubs that build no transaction, and no function
\* of the code invokes withdraw_from_blend
ScreenFunction(kind) ==
    CASE kind = "Stake"    -> "stakeBlend"
      [] kind = "Unstake"  -> "unstakeBlend"
      [] kind = "Swap"     -> "swapTokens"
      [] kind = "Supply"   -> "supplyAsset"
      [] kind = "Withdraw" -> "withdrawAsset"
      [] kind = "Borrow"   -> "borrowFromBlend"

\* prefix of the message thrown when the simulation fails
SimulationFailedPrefix(o) ==
    CASE o = "stake"   -> "Staking simulation failed: "
      [] o = "unstake" -> "Unstaking simulation failed: "
      [] o = "swap"    -> "Swap simulation failed: "
      [] o = "supply"  -> "Supply simulation failed: "
      [] o = "borrow"  -> "Borrow simulation failed: "

\* SorobanRpc.Api.isSimulationError(sim)
isSimulationError_never(s) == FALSE
isSimulationError(s) == s.kind = "error"

\* signAndSubmitTransaction: `if (result.error) throw`
signFailed_never(r) == FALSE
signFailed(r) == r \in {"userRejected", "errorNoMessage"}

\* message of the error thrown for a failed signature:
\* result.error.message || 'Transaction signing failed'
signErrorMessage(r) ==
    IF r = "userRejected" THEN "User declined access"
    ELSE "Transaction signing failed"

\* `if (result.status === 'PENDING')`
isPending_lenient(st) == st # "ERROR"
isPending(st) == st = "PENDING"

\* value a facade function resolves with once waitForTransaction returned
FacadeReturn_simRetvalOnly(o, s, snt) ==
    IF s.retval # "noRetval" THEN <<s.retval>> ELSE <<"0n">>
FacadeReturn(o, s, snt) ==
    CASE o = "stake"   -> <<>>
      [] o = "unstake" -> IF s.retval # "noRetval" THEN <<s.retval>> ELSE <<"0n">>
      [] o \in {"swap", "supply", "borrow"} -> <<snt.hash>>

TimeoutError == <<"Transaction confirmation timeout">>

(***************************************************************************)
(* The facade functions: stakeBTokens, unstakeBTokens, swapTokens,         *)
(* supplyToBlend, borrowFromBlend.  All five share one control flow and    *)
(* differ in the contract method, the message prefix and the value they    *)
(* resolve with.                                                           *)
(***************************************************************************)
Issue(fn, arg) == calls' = Append(calls, Call(fn, arg))

\* the facade call ends: the promise settles with `res`
Settle(res) ==
    /\ pc' = "done"
    /\ result' = res

\* entry of a facade function up to its first await, getNetwork()
FacadeStart(o) ==
    /\ pc \in {"idle", "done"}
    /\ op' = o
    /\ pc' = "getNetwork"
    /\ calls' = <<Call("getNetwork", "-")>>
    /\ sim' = NoSim
    /\ signed' = "none"
    /\ sent' = NoSent
    /\ attempts' = 0
    /\ clock' = 0
    /\ pollAt' = 0
    /\ pollGap' = 0
    /\ lastPoll' = NoPoll
    /\ failedSeen' = FALSE
    /\ result' = NoResult
    /\ network' = "-"
    /\ UNCHANGED freighterInstalled

\* getNetwork() resolved: `if (networkResult.error) throw`, pick the server,
\* issue getAccount
GetNetworkReturnsP(n) ==
    /\ pc = "getNetwork"
    /\ network' = n
    /\ IF n = "error"
       THEN /\ Settle(Throw(<<"Failed to get network">>))
            /\ UNCHANGED calls
       ELSE /\ pc' = "getAccount"
            /\ Issue("getAccount", getServerAndNetwork(n).sorobanServer)
            /\ UNCHANGED result
    /\ UNCHANGED <<freighterInstalled, op, sim, signed, sent, attempts, clock, pollAt,
                   pollGap, lastPoll, failedSeen>>

\* getAccount resolved or rejected; on success the transaction is built and
\* simulateTransaction is issued
GetAccountReturnsP_skipSimulate(ok) ==
    /\ pc = "getAccount"
    /\ IF ok
       THEN /\ pc' = "sign"
            /\ Issue("signTransaction", getServerAndNetwork(network).networkPassphrase)
            /\ UNCHANGED result
       ELSE /\ Settle(Throw(<<"raw", "getAccount">>))
            /\ UNCHANGED calls
    /\ UNCHANGED <<freighterInstalled, op, sim, signed, sent, attempts, clock, pollAt,
                   pollGap, lastPoll, failedSeen, network>>
GetAccountReturnsP(ok) ==
    /\ pc = "getAccount"
    /\ IF ok
       THEN /\ pc' = "simulate"
            /\ Issue("simulateTransaction", ContractMethod(op))
            /\ UNCHANGED result
       ELSE /\ Settle(Throw(<<"raw", "getAccount">>))
            /\ UNCHANGED calls
    /\ UNCHANGED <<freighterInstalled, op, sim, signed, sent, attempts, clock, pollAt,
                   pollGap, lastPoll, failedSeen, network>>

\* responses of simulateTransaction
SimResponses ==
    {[kind |-> "error", error |-> e, retval |-> "-"] : e \in SimErrors}
    \cup {[kind |-> "success", error |-> "-", retval |-> r] : r \in SimRetvals}
    \cup {[kind |-> "throws", error |-> "-", retval |-> "-"]}

\* simulateTransaction resolved: a simulation error throws; otherwise
\* signAndSubmitTransaction runs up to its await of signTransaction
SimulateReturnsP(s) ==
    /\ pc = "simulate"
    /\ sim' = s
    /\ IF s.kind = "throws"
       THEN /\ Settle(Throw(<<"raw", "simulateTransaction">>))
            /\ UNCHANGED calls
       ELSE IF isSimulationError(s)
       THEN /\ Settle(Throw(<<SimulationFailedPrefix(op), s.error>>))
            /\ UNCHANGED calls
       ELSE IF ~freighterInstalled
       THEN /\ Settle(Throw(<<"Freighter wallet is not installed">>))
            /\ UNCHANGED calls
       ELSE /\ pc' = "sign"
            /\ Issue("signTransaction", getServerAndNetwork(network).networkPassphrase)
            /\ UNCHANGED result
    /\ UNCHANGED <<freighterInstalled, op, signed, sent, attempts, clock, pollAt,
                   pollGap, lastPoll, failedSeen, network>>

\* signTransaction resolved: `if (result.error) throw`, else the signed XDR
\* is handed to sendTransaction
SignReturnsP(r) ==
    /\ pc = "sign"
    /\ signed' = r
    /\ IF r = "throws"
       THEN /\ Settle(Throw(<<"raw", "signTransaction">>))
            /\ UNCHANGED calls
       ELSE IF signFailed(r)
       THEN /\ Settle(Throw(<<signErrorMessage(r)>>))
            /\ UNCHANGED calls
       ELSE /\ pc' = "send"
            /\ Issue("sendTransaction", "-")
            /\ UNCHANGED result
    /\ UNCHANGED <<freighterInstalled, op, sim, sent, attempts, clock, pollAt,
                   pollGap, lastPoll, failedSeen, network>>

\* responses of sendTransaction
SendResponses ==
    {[status |-> st, hash |-> h] : st \in SendStatuses, h \in Hashes}
    \cup {[status |-> "throws", hash |-> "-"]}

\* sendTransaction resolved: PENDING enters waitForTransaction, which issues
\* its first getTransaction; anything else throws
SendReturnsP_retry(r) ==
    /\ pc = "send"
    /\ sent' = r
    /\ IF r.status = "throws"
       THEN /\ Settle(Throw(<<"raw", "sendTransaction">>))
            /\ UNCHANGED calls
       ELSE IF isPending(r.status)
       THEN /\ pc' = "poll"
            /\ Issue("getTransaction", r.hash)
            /\ UNCHANGED result
       ELSE IF r.status = "TRY_AGAIN_LATER" /\ Len(calls) < 6
       THEN /\ pc' = "send"
            /\ Issue("sendTransaction", "-")
            /\ UNCHANGED result
       ELSE /\ Settle(Throw(<<"Transaction failed: ", r.status>>))
            /\ UNCHANGED calls
    /\ UNCHANGED <<freighterInstalled, op, sim, signed, attempts, clock, pollAt,
                   pollGap, lastPoll, failedSeen, network>>
SendReturnsP(r) ==
    /\ pc = "send"
    /\ sent' = r
    /\ IF r.status = "throws"
       THEN /\ Settle(Throw(<<"raw", "sendTransaction">>))
            /\ UNCHANGED calls
       ELSE IF isPending(r.status)
       THEN /\ pc' = "poll"
            /\ Issue("getTransaction", r.hash)
            /\ UNCHANGED result
       ELSE /\ Settle(Throw(<<"Transaction failed: ", r.status>>))
            /\ UNCHANGED calls
    /\ UNCHANGED <<freighterInstalled, op, sim, signed, attempts, clock, pollAt,
                   pollGap, lastPoll, failedSeen, network>>

(***************************************************************************)
(* waitForTransaction                                                      *)
(***************************************************************************)
\* body of the inner try block for one getTransaction outcome
TryPoll(resp) ==
    CASE resp.status = "SUCCESS" -> [ctl |-> "return", err |-> <<>>]
      [] resp.status = "FAILED"  ->
            [ctl |-> "throw", err |-> <<"Transaction failed: ", resp.meta>>]
      [] resp.status = "throws"  -> [ctl |-> "throw", err |-> <<"raw", "getTransaction">>]
      [] OTHER                   -> [ctl |-> "next", err |-> <<>>]

\* a poll loop without the inner catch: what the try block throws ends the loop
CatchPoll_noCatch(o) == o

\* the inner `catch (error)`: logs "Transaction not ready yet" and goes on,
\* whatever was thrown inside the try block
CatchPoll(o) ==
    IF o.ctl = "throw" THEN [ctl |-> "next", err |-> <<>>] ELSE o

\* number of getTransaction calls issued by the current facade call
NumCalls(fn) == Cardinality({i \in 1..Len(calls) : calls[i].fn = fn})

\* a getTransaction response arrived
PollReturnsP(resp) ==
    /\ pc = "poll"
    /\ lastPoll' = resp
    /\ failedSeen' = (failedSeen \/ resp.status = "FAILED")
    /\ LET o == CatchPoll(TryPoll(resp)) IN
       CASE o.ctl = "return" -> Settle(Return(FacadeReturn(op, sim, sent)))
         [] o.ctl = "throw"  -> Settle(Throw(o.err))
         [] o.ctl = "next"   -> /\ pc' = "sleep"
                                /\ UNCHANGED result
    /\ UNCHANGED <<freighterInstalled, op, calls, sim, signed, sent, attempts,
                   clock, pollAt, pollGap, network>>

\* the one-second timer fired: attempts++, loop test, next poll or timeout
SleepReturnsP ==
    /\ pc = "sleep"
    /\ attempts' = attempts + 1
    /\ clock' = clock + POLL_INTERVAL_MS
    /\ IF attempts + 1 < maxAttempts
       THEN /\ pc' = "poll"
            /\ Issue("getTransaction", sent.hash)
            /\ pollAt' = clock'
            /\ pollGap' = clock' - pollAt
            /\ UNCHANGED result
       ELSE /\ Settle(Throw(TimeoutError))
            /\ UNCHANGED <<calls, pollAt, pollGap>>
    /\ UNCHANGED <<freighterInstalled, op, sim, signed, sent, lastPoll,
                   failedSeen, network>>


(***************************************************************************)
(* Assets and amounts                                                      *)
(***************************************************************************)
\* CONFIG.SUPPORTED_ASSETS, by symbol (wETH and wBTC are left out)
Assets == {"XLM", "BLND", "USDC"}

decimals(a) ==
    CASE a = "XLM"  -> 7
      [] a = "BLND" -> 7
      [] a = "USDC" -> 6

collateralFactor(a) ==
    CASE a = "XLM"  -> 7000
      [] a = "BLND" -> 6500
      [] a = "USDC" -> 8500

\* Number(a), in thousandths; Number('') is 0
AmountMilli(a) ==
    CASE a = ""      -> 0
      [] a = "0"     -> 0
      [] a = "5"     -> 5000
      [] a = "10"    -> 10000
      [] a = "99"    -> 99000
      [] a = "100"   -> 100000
      [] a = "600"   -> 600000
      [] a = "2000"  -> 2000000
      [] a = "500.0000000"  -> 500000
      [] a = "1000.0000000" -> 1000000
      [] a = "0.035" -> 35

\* whether Number(a) * Math.pow(10, d) is an integer in IEEE-754 doubles:
\* 0.035 * 1e7 is 350000.00000000006, every other product here is exact
ProductIsInteger(a, d) == ~(a = "0.035" /\ d = 7)

\* x / y rounded to the nearest integer, halves upwards (Number.toFixed)
RoundDiv(x, y) == (x \div y) + (IF 2 * (x % y) >= y THEN 1 ELSE 0)

Pow10(n) == IF n = 0 THEN 1 ELSE IF n = 1 THEN 10 ELSE 100

(***************************************************************************)
(* Notifications: components/Toast.tsx and context/ToastContext.tsx        *)
(***************************************************************************)
NoHash == "-"

\* createToast: the duration defaults to 0 for 'loading' and 5000 otherwise
createToast(id, type, title, message) ==
    [id |-> id, type |-> type, title |-> title, message |-> message,
     hash |-> NoHash, duration |-> IF type = "loading" THEN 0 ELSE 5000]

\* showToast: setToasts(prev => [...prev, toast])
showToast(ts, t) == Append(ts, t)

\* an update that takes the entry out and appends the updated copy
updateToast_movesToEnd(ts, id, updates) ==
    LET merged(t) == [f \in DOMAIN t |-> IF f \in DOMAIN updates THEN updates[f] ELSE t[f]]
        hit == SelectSeq(ts, LAMBDA t : t.id = id)
    IN  SelectSeq(ts, LAMBDA t : t.id # id) \o [i \in DOMAIN hit |-> merged(hit[i])]

\* updateToast: setToasts(prev => prev.map(t => t.id === id ? {...t, ...updates} : t))
updateToast(ts, id, updates) ==
    [i \in DOMAIN ts |->
        IF ts[i].id = id
        THEN [f \in DOMAIN ts[i] |->
                 IF f \in DOMAIN updates THEN updates[f] ELSE ts[i][f]]
        ELSE ts[i]]

\* dismissToast: setToasts(prev => prev.filter(t => t.id !== id))
dismissToast(ts, id) == SelectSeq(ts, LAMBDA t : t.id # id)

\* e.message || fallback
MessageOr(e, fallback) == IF e = <<>> THEN <<fallback>> ELSE e

NoErrors == [amount |-> "", general |-> ""]
NoSubmit == [fn |-> "none", asset |-> "-", amount |-> "", coll |-> 0, debt |-> 0]

(***************************************************************************)
(* The Swap screen: components/Swap.tsx                                    *)
(***************************************************************************)
\* amounts typed on the Swap screen
SwapAmounts == {"", "10", "100"}

\* balances Horizon may report for the sold asset, in thousandths
BalanceValues == {0, 50000}

\* EXCHANGE_RATES, in ten-thousandths; the keys written with 'BLEND' match no
\* configured symbol
EXCHANGE_RATES(key) ==
    CASE key = <<"XLM", "USDC">>  -> 1200
      [] key = <<"USDC", "XLM">>  -> 83300
      [] key = <<"BLND", "USDC">> -> 500
      [] key = <<"USDC", "BLND">> -> 200000
      [] OTHER                    -> 0

\* calculateExchangeRate, in ten-thousandths
calculateExchangeRate(from, to) ==
    IF EXCHANGE_RATES(<<from, to>>) # 0 THEN EXCHANGE_RATES(<<from, to>>)
    ELSE IF EXCHANGE_RATES(<<to, from>>) # 0
    THEN (10000 * 10000) \div EXCHANGE_RATES(<<to, from>>)
    ELSE IF EXCHANGE_RATES(<<from, "USDC">>) # 0 /\ EXCHANGE_RATES(<<"USDC", to>>) # 0
    THEN (EXCHANGE_RATES(<<from, "USDC">>) * EXCHANGE_RATES(<<"USDC", to>>)) \div 10000
    ELSE 10000

\* m thousandths times r ten-thousandths, in ten-thousandths
MulMilli(m, r) == (m \div 1000) * r + ((m % 1000) * r) \div 1000

\* calculateEstimatedOutput, in ten-thousandths; 0 stands for ''
calculateEstimatedOutput(inputAmount, from, to) ==
    IF inputAmount = "" \/ AmountMilli(inputAmount) <= 0 THEN 0
    ELSE LET rate == calculateExchangeRate(from, to)
             out  == MulMilli(AmountMilli(inputAmount), rate)
         IN  IF decimals(from) >= decimals(to)
             THEN out * Pow10(decimals(from) - decimals(to))
             ELSE out \div Pow10(decimals(to) - decimals(from))

\* calculatePriceImpact, in whole percents; 0 also stands for '' (Number('') is 0)
calculatePriceImpact(inputAmount, outputAmount, rate) ==
    LET expectedOutput == MulMilli(AmountMilli(inputAmount), rate)
        diff == IF expectedOutput >= outputAmount
                THEN expectedOutput - outputAmount
                ELSE outputAmount - expectedOutput
    IN  IF inputAmount = "" \/ outputAmount = 0 \/ rate = 0 \/ expectedOutput = 0
        THEN 0
        ELSE (diff * 100) \div expectedOutput

\* the values the effect of lines 220-234 keeps in step with the inputs
estimatedOutput == calculateEstimatedOutput(amount, fromAsset, toAsset)
priceImpact ==
    calculatePriceImpact(amount, estimatedOutput, calculateExchangeRate(fromAsset, toAsset))

\* Swap.validateAmount
SwapValidateAmount(value) ==
    IF value = "" THEN "Amount is required"
    ELSE IF AmountMilli(value) <= 0 THEN "Amount must be greater than 0"
    ELSE IF AmountMilli(value) > balance THEN "Insufficient balance"
    ELSE ""

\* Swap.validateForm: the errors it sets (the slippage field keeps its
\* default '1.0', which validateSlippage accepts)
SwapValidateForm ==
    IF ~isConnected \/ publicKey = "null"
    THEN [amount |-> "", general |-> "Please connect your Freighter wallet"]
    ELSE [amount  |-> SwapValidateAmount(amount),
          general |->
              IF priceImpact > 15
              THEN "Price impact too high (>15%). Consider reducing amount."
              ELSE IF estimatedOutput <= 0 THEN "Invalid output amount calculated"
              ELSE IF fromAsset = toAsset THEN "Select different tokens"
              ELSE ""]

\* the toast handleSwap leaves for a resolved swapTokens call
SwapSuccessToast(hash) ==
    [type |-> "success", title |-> "Swap Successful!",
     message |-> <<"Swapped", amount, fromAsset, "for", ToString(estimatedOutput), toAsset>>,
     hash |-> hash, duration |-> 5000]

\* the toast handleSwap leaves for a rejected swapTokens call
SwapFailedToast(e) ==
    [type |-> "error", title |-> "Swap Failed",
     message |-> MessageOr(e, "Failed to swap tokens"), duration |-> 8000]

formVarsBorrow == <<asset, userPosition, projectedHealth, maxBorrowable>>

\* the facade call a handler awaits has settled: the handler's continuation
\* is a microtask, which runs before any other event is dispatched
Resuming == hpc = "facade" /\ pc = "done"

\* the frame of a call whose outcome its caller has taken is dropped; the
\* outcome (result), the response of sendTransaction (sent) and failedSeen
\* are kept as the record of the last call
Dispose ==
    /\ op' = "none"
    /\ pc' = "idle"
    /\ calls' = <<>>
    /\ sim' = NoSim
    /\ signed' = "none"
    /\ attempts' = 0
    /\ clock' = 0
    /\ pollAt' = 0
    /\ pollGap' = 0
    /\ lastPoll' = NoPoll
    /\ network' = "-"
    /\ UNCHANGED <<freighterInstalled, sent, failedSeen, result>>
walletVars == <<isConnected, publicKey>>

\* handleAmountChange
SwapSetAmount(a) ==
    /\ ~Resuming
    /\ screen = "swap"
    /\ ~loading /\ isConnected
    /\ a # amount
    /\ amount' = a
    /\ errors' = [errors EXCEPT !.amount = ""]
    /\ UNCHANGED <<pipeVars, caller, hpc, walletVars, toasts, nextToastId, toastId,
                   loading, formVarsBorrow, fromAsset, toAsset, balance, loads,
                   screen, extVars, submitted>>

\* loadBalance up to its await: without a wallet the balance is reset
loadBalanceStart(a) ==
    IF ~isConnected \/ publicKey = "null"
    THEN /\ balance' = 0
         /\ UNCHANGED loads
    ELSE /\ loads' = loads \cup {a}
         /\ UNCHANGED balance

\* the sold asset is changed; the effect of lines 215-217 reloads the balance
SetFromAsset(a) ==
    /\ ~Resuming
    /\ screen = "swap"
    /\ ~loading
    /\ a # fromAsset
    /\ fromAsset' = a
    /\ loadBalanceStart(a)
    /\ UNCHANGED <<pipeVars, caller, hpc, walletVars, toasts, nextToastId, toastId,
                   loading, errors, amount, formVarsBorrow, toAsset, screen, extVars, submitted>>

\* the bought asset is changed
SetToAsset(a) ==
    /\ ~Resuming
    /\ screen = "swap"
    /\ ~loading
    /\ a # toAsset
    /\ toAsset' = a
    /\ UNCHANGED <<pipeVars, caller, hpc, walletVars, toasts, nextToastId, toastId,
                   loading, errors, amount, formVarsBorrow, fromAsset, balance, loads,
                   screen, extVars, submitted>>

\* getTokenBalance resolved for a loadBalance started by an effect
LoadBalanceReturnsP(a, b) ==
    /\ ~Resuming
    /\ screen = "swap"
    /\ a \in loads
    /\ loads' = loads \ {a}
    /\ balance' = b
    /\ UNCHANGED <<pipeVars, caller, hpc, walletVars, toasts, nextToastId, toastId,
                   loading, errors, amount, formVarsBorrow, fromAsset, toAsset,
                   screen, extVars, submitted>>

\* handleSwap, from the click on the Swap button to its await of swapTokens
\* (which runs up to its own first await); a form that fails validateForm
\* only shows its errors
handleSwap ==
    /\ screen = "swap"
    /\ ~loading /\ isConnected /\ amount # "" /\ AmountMilli(amount) > 0
    /\ fromAsset # toAsset
    /\ errors' = SwapValidateForm
    /\ IF SwapValidateForm # NoErrors
       THEN UNCHANGED <<pipeVars, caller, hpc, toasts, nextToastId, toastId,
                        loading, submitted>>
       ELSE /\ nextToastId <= MaxToasts
            /\ loading' = TRUE
            /\ toasts' = showToast(toasts,
                            createToast(nextToastId, "loading", "Swapping tokens...", <<>>))
            /\ toastId' = nextToastId
            /\ nextToastId' = nextToastId + 1
            /\ FacadeStart("swap")
            /\ caller' = "handleSwap"
            /\ hpc' = "facade"
            /\ submitted' = [fn |-> "swapTokens", asset |-> fromAsset,
                             amount |-> amount, coll |-> 0, debt |-> 0]
    /\ UNCHANGED <<walletVars, amount, formVarsBorrow, fromAsset, toAsset, balance,
                   loads, screen, extVars>>

\* handleSwap after its await of swapTokens: the success or the failure
\* toast, then the balance reload or the end of the handler
handleSwapResumes ==
    /\ screen = "swap"
    /\ Resuming
    /\ Dispose
    /\ IF result.kind = "return"
       THEN /\ toasts' = updateToast(toasts, toastId, SwapSuccessToast(result.value[1]))
            /\ amount' = ""
            /\ errors' = NoErrors
            /\ IF ~isConnected \/ publicKey = "null"
               THEN /\ balance' = 0
                    /\ loading' = FALSE
                    /\ hpc' = "idle"
               ELSE /\ hpc' = "reload"
                    /\ UNCHANGED <<balance, loading>>
       ELSE /\ toasts' = updateToast(toasts, toastId, SwapFailedToast(result.value))
            /\ loading' = FALSE
            /\ hpc' = "idle"
            /\ UNCHANGED <<amount, errors, balance>>
    /\ UNCHANGED <<caller, walletVars, nextToastId, toastId, formVarsBorrow,
                   fromAsset, toAsset, loads, screen, extVars, submitted>>

\* getTokenBalance resolved for the loadBalance handleSwap awaits; its
\* finally block clears the loading flag
SwapReloadReturnsP(b) ==
    /\ screen = "swap"
    /\ hpc = "reload"
    /\ balance' = b
    /\ loading' = FALSE
    /\ hpc' = "idle"
    /\ UNCHANGED <<pipeVars, caller, walletVars, toasts, nextToastId, toastId,
                   errors, amount, formVarsBorrow, fromAsset, toAsset, loads,
                   screen, extVars, submitted>>

\* the timer of a toast with a non-zero duration fired and its exit
\* animation ended: onRemove(toast.id)
ToastTimerFiresP(id) ==
    /\ ~Resuming
    /\ \E i \in DOMAIN toasts : toasts[i].id = id /\ toasts[i].duration # 0
    /\ toasts' = dismissToast(toasts, id)
    /\ UNCHANGED <<pipeVars, caller, hpc, walletVars, nextToastId, toastId, loading,
                   errors, amount, formVarsBorrow, fromAsset, toAsset, balance,
                   loads, screen, extVars, submitted>>

\* the user closed a toast: handleDismiss, then onRemove(toast.id)
ToastClosedP(id) ==
    /\ ~Resuming
    /\ \E i \in DOMAIN toasts : toasts[i].id = id
    /\ toasts' = dismissToast(toasts, id)
    /\ UNCHANGED <<pipeVars, caller, hpc, walletVars, nextToastId, toastId, loading,
                   errors, amount, formVarsBorrow, fromAsset, toAsset, balance,
                   loads, screen, extVars, submitted>>

(***************************************************************************)
(* The Borrow screen: components/Borrow.tsx                                *)
(*                                                                         *)
(* Token amounts are in thousandths of a token.  assetPrice is positive    *)
(* whenever the computations run and multiplies every term of both         *)
(* computations, so it is left out of the ratios.                          *)
(***************************************************************************)
\* amounts typed on the Borrow screen
BorrowAmounts == {"", "99", "100", "0.035"}

\* assets offered by the model's asset selector
BorrowAssets == {"XLM", "USDC"}

\* userPosition before the first load
NoPosition == [shape |-> "null", supplied_assets |-> {}, borrowed_assets |-> {}]

\* what getUserPosition resolves with: its fallback object, which has neither
\* map, or a decoded position; a map is a set of <<asset, amount>> entries
UserPositions ==
    {[shape |-> "fallback", supplied_assets |-> {}, borrowed_assets |-> {}],
     [shape |-> "maps", supplied_assets |-> {<<"USDC", 221000>>},
                        borrowed_assets |-> {<<"XLM", 1000>>}],
     [shape |-> "maps", supplied_assets |-> {<<"USDC", 220000>>},
                        borrowed_assets |-> {<<"XLM", 2000>>}]}

RECURSIVE SumEntries(_)
\* the sum of the amounts of a map's entries
SumEntries(m) ==
    IF m = {} THEN 0
    ELSE LET e == CHOOSE x \in m : TRUE
         IN  e[2] + SumEntries(m \ {e})

\* calculateProjectedHealth: totalCollateralValue
ProjectedCollateral(pos) == SumEntries(pos.supplied_assets)

\* calculateProjectedHealth: totalDebtValue; the entry of the selected asset
\* already holds the new borrow when the new borrow is added once more
ProjectedDebt(pos, as, am) ==
    SumEntries({<<e[1], IF e[1] = as THEN e[2] + AmountMilli(am) ELSE e[2]>> :
                   e \in pos.borrowed_assets})
    + AmountMilli(am)

Health(kind, milli) == [kind |-> kind, milli |-> milli]

\* projectedHealth before any computation: '' (Number('') is 0)
NoHealth == Health("empty", 0)

\* calculateProjectedHealth: 'Error' when BigInt() rejects the product, else
\* the ratio printed with toFixed(3), in thousandths
calculateProjectedHealth(pos, as, am) ==
    IF ~ProductIsInteger(am, decimals(as)) THEN Health("Error", 0)
    ELSE LET c == ProjectedCollateral(pos)
             d == ProjectedDebt(pos, as, am)
         IN  Health("number", IF d > 0 THEN RoundDiv(c * 1000, d) ELSE 999000)

\* calculateMaxBorrowable: printed with toFixed(6), in millionths
calculateMaxBorrowable(pos) ==
    LET ltv == {<<e[1], e[2] * collateralFactor(e[1])>> : e \in pos.supplied_assets}
        v   == RoundDiv(SumEntries(ltv), 11) - 1000 * SumEntries(pos.borrowed_assets)
    IN  IF v < 0 THEN 0 ELSE v

\* Borrow.validateAmount
BorrowValidateAmount(value) ==
    IF value = "" THEN "Amount is required"
    ELSE IF AmountMilli(value) <= 0 THEN "Amount must be greater than 0"
    ELSE IF AmountMilli(value) * 1000 > maxBorrowable
    THEN "Amount exceeds maximum borrowable"
    ELSE ""

\* `Number(projectedHealth) < 1.1`
belowMinimum(h) == h.milli < 1100

\* Borrow.validateForm: the errors it sets
BorrowValidateForm ==
    IF ~isConnected \/ publicKey = "null"
    THEN [amount |-> "", general |-> "Please connect your Freighter wallet"]
    ELSE [amount  |-> BorrowValidateAmount(amount),
          general |->
              IF projectedHealth.kind # "Error" /\ belowMinimum(projectedHealth)
              THEN "This borrow would make your position too risky (health factor < 1.1)"
              ELSE ""]

\* the effect of lines 116-121, for the inputs the render holds
BorrowEffect(pos, as, am) ==
    IF pos.shape # "null" /\ am # ""
    THEN /\ projectedHealth' = calculateProjectedHealth(pos, as, am)
         /\ maxBorrowable' = calculateMaxBorrowable(pos)
    ELSE UNCHANGED <<projectedHealth, maxBorrowable>>

formVarsSwap == <<fromAsset, toAsset, balance>>

\* handleAmountChange
BorrowSetAmount(a) ==
    /\ ~Resuming
    /\ screen = "borrow"
    /\ ~loading /\ isConnected
    /\ a # amount
    /\ amount' = a
    /\ errors' = [errors EXCEPT !.amount = ""]
    /\ BorrowEffect(userPosition, asset, a)
    /\ UNCHANGED <<pipeVars, caller, hpc, walletVars, toasts, nextToastId, toastId,
                   loading, asset, userPosition, formVarsSwap, loads, screen, extVars, submitted>>

\* setAsset from the asset selector
SetAsset(a) ==
    /\ ~Resuming
    /\ screen = "borrow"
    /\ ~loading
    /\ a # asset
    /\ asset' = a
    /\ BorrowEffect(userPosition, a, amount)
    /\ UNCHANGED <<pipeVars, caller, hpc, walletVars, toasts, nextToastId, toastId,
                   loading, errors, amount, userPosition, formVarsSwap, loads,
                   screen, extVars, submitted>>

\* getUserPosition resolved for the loadUserData of the mount effect
LoadUserDataReturnsP(p) ==
    /\ ~Resuming
    /\ screen = "borrow"
    /\ "position" \in loads
    /\ loads' = loads \ {"position"}
    /\ userPosition' = p
    /\ BorrowEffect(p, asset, amount)
    /\ UNCHANGED <<pipeVars, caller, hpc, walletVars, toasts, nextToastId, toastId,
                   loading, errors, amount, asset, formVarsSwap, screen, extVars, submitted>>

\* the toast handleBorrow leaves for a resolved borrowFromBlend call
BorrowSuccessToast(hash) ==
    [type |-> "success", title |-> "Borrow Successful!",
     message |-> <<"Successfully borrowed", amount, asset>>,
     hash |-> hash, duration |-> 5000]

\* the toast handleBorrow leaves for a rejected borrowFromBlend call
BorrowFailedToast(e) ==
    [type |-> "error", title |-> "Borrow Failed",
     message |-> MessageOr(e, "Failed to borrow assets"), duration |-> 8000]

\* handleBorrow, from the click on the Borrow button to its await of
\* borrowFromBlend (which runs up to its own first await); a form that fails
\* validateForm only shows its errors
handleBorrow ==
    /\ screen = "borrow"
    /\ ~loading /\ isConnected /\ amount # "" /\ AmountMilli(amount) > 0
    /\ maxBorrowable > 0
    /\ errors' = BorrowValidateForm
    /\ IF BorrowValidateForm # NoErrors
       THEN UNCHANGED <<pipeVars, caller, hpc, toasts, nextToastId, toastId,
                        loading, submitted>>
       ELSE /\ nextToastId <= MaxToasts
            /\ loading' = TRUE
            /\ toasts' = showToast(toasts,
                            createToast(nextToastId, "loading", "Borrowing assets...", <<>>))
            /\ toastId' = nextToastId
            /\ nextToastId' = nextToastId + 1
            /\ FacadeStart("borrow")
            /\ caller' = "handleBorrow"
            /\ hpc' = "facade"
            /\ submitted' = [fn |-> "borrowFromBlend", asset |-> asset,
                             amount |-> amount,
                             coll |-> ProjectedCollateral(userPosition),
                             debt |-> ProjectedDebt(userPosition, asset, amount)]
    /\ UNCHANGED <<walletVars, amount, formVarsBorrow, formVarsSwap, loads, screen, extVars>>

\* handleBorrow after its await of borrowFromBlend: the success or the
\* failure toast, then the position reload or the end of the handler
handleBorrowResumes ==
    /\ screen = "borrow"
    /\ Resuming
    /\ Dispose
    /\ IF result.kind = "return"
       THEN /\ toasts' = updateToast(toasts, toastId, BorrowSuccessToast(result.value[1]))
            /\ amount' = ""
            /\ errors' = NoErrors
            /\ IF ~isConnected \/ publicKey = "null"
               THEN /\ userPosition' = NoPosition
                    /\ maxBorrowable' = 0
                    /\ projectedHealth' = NoHealth
                    /\ loading' = FALSE
                    /\ hpc' = "idle"
               ELSE /\ hpc' = "reload"
                    /\ UNCHANGED <<userPosition, maxBorrowable, projectedHealth, loading>>
       ELSE /\ toasts' = updateToast(toasts, toastId, BorrowFailedToast(result.value))
            /\ loading' = FALSE
            /\ hpc' = "idle"
            /\ UNCHANGED <<amount, errors, userPosition, maxBorrowable, projectedHealth>>
    /\ UNCHANGED <<caller, walletVars, nextToastId, toastId, asset, formVarsSwap,
                   loads, screen, extVars, submitted>>

\* getUserPosition resolved for the loadUserData handleBorrow awaits; its
\* finally block clears the loading flag
BorrowReloadReturnsP(p) ==
    /\ screen = "borrow"
    /\ hpc = "reload"
    /\ userPosition' = p
    /\ BorrowEffect(p, asset, amount)
    /\ loading' = FALSE
    /\ hpc' = "idle"
    /\ UNCHANGED <<pipeVars, caller, walletVars, toasts, nextToastId, toastId,
                   errors, amount, asset, formVarsSwap, loads, screen, extVars, submitted>>

(***************************************************************************)
(* Steps of the system                                                     *)
(***************************************************************************)
\* a facade function is called directly, outside any screen
Invoke ==
    /\ screen = "none"
    /\ \E o \in Ops : FacadeStart(o)
    /\ caller' = "direct"
    /\ UNCHANGED <<hpc, walletVars, toasts, nextToastId, toastId, loading, errors,
                   amount, formVarsBorrow, formVarsSwap, loads, screen, extVars, submitted>>

GetNetworkReturns == (\E n \in NetworkResults : GetNetworkReturnsP(n)) /\ UNCHANGED uiVars
GetAccountReturns == (\E ok \in BOOLEAN : GetAccountReturnsP(ok)) /\ UNCHANGED uiVars
SimulateReturns == (\E s \in SimResponses : SimulateReturnsP(s)) /\ UNCHANGED uiVars
SignReturns == (\E r \in SignResults : SignReturnsP(r)) /\ UNCHANGED uiVars
SendReturns == (\E r \in SendResponses : SendReturnsP(r)) /\ UNCHANGED uiVars
PollReturns == (\E resp \in PollOutcomes : PollReturnsP(resp)) /\ UNCHANGED uiVars
SleepReturns == SleepReturnsP /\ UNCHANGED uiVars

SwapAmountChanged == \E a \in SwapAmounts : SwapSetAmount(a)
FromAssetChanged == \E a \in Assets : SetFromAsset(a)
ToAssetChanged == \E a \in Assets : SetToAsset(a)
LoadBalanceReturns == \E a \in Assets, b \in BalanceValues : LoadBalanceReturnsP(a, b)
SwapReloadReturns == \E b \in BalanceValues : SwapReloadReturnsP(b)
ToastTimerFires == \E id \in 1..MaxToasts : ToastTimerFiresP(id)
ToastClosed == \E id \in 1..MaxToasts : ToastClosedP(id)

BorrowAmountChanged == \E a \in BorrowAmounts : BorrowSetAmount(a)
AssetChanged == \E a \in BorrowAssets : SetAsset(a)
LoadUserDataReturns == \E p \in UserPositions : LoadUserDataReturnsP(p)
BorrowReloadReturns == \E p \in UserPositions : BorrowReloadReturnsP(p)

\* the pipeline before any call, on a page whose wallet extension may be absent
PipeInit ==
    /\ freighterInstalled \in BOOLEAN
    /\ op = "none"
    /\ pc = "idle"
    /\ calls = <<>>
    /\ sim = NoSim
    /\ signed = "none"
    /\ sent = NoSent
    /\ attempts = 0
    /\ clock = 0
    /\ pollAt = 0
    /\ pollGap = 0
    /\ lastPoll = NoPoll
    /\ failedSeen = FALSE
    /\ result = NoResult
    /\ network = "-"

NoQuery == [fn |-> "none", outcome |-> "none", value |-> "-", extCalls |-> 0]
NoProbe == [fn |-> "none"]

\* the wallet session of a page whose session is given (no connect() runs)
SessionIdle ==
    /\ adapter = "none"
    /\ sessionNetwork = IF isConnected THEN "TESTNET" ELSE "null"
    /\ walletId = "null"
    /\ isLoading = FALSE
    /\ error = "null"
    /\ cpc = "idle"
    /\ connectResult = "none"
    /\ modal = "closed"
    /\ lastQuery = NoQuery

\* the state of a screen when it is mounted: the useState initial values,
\* and the load its mount effect starts when a wallet is connected
ScreenInit(scr) ==
    /\ screen = scr
    /\ caller = "none"
    /\ hpc = "idle"
    /\ isConnected \in (IF scr = "none" THEN {FALSE} ELSE BOOLEAN)
    /\ publicKey = IF isConnected THEN "GUSER" ELSE "null"
    /\ toasts = <<>>
    /\ nextToastId = 1
    /\ toastId = 0
    /\ loading = FALSE
    /\ errors = NoErrors
    /\ amount = ""
    /\ asset = IF scr = "supply" THEN "BLND" ELSE "XLM"
    /\ userPosition = NoPosition
    /\ projectedHealth = NoHealth
    /\ maxBorrowable = 0
    /\ fromAsset = "XLM"
    /\ toAsset = "BLND"
    /\ balance = 0
    /\ loads = IF ~isConnected THEN {}
               ELSE IF scr = "swap" THEN {"XLM"}
               ELSE IF scr = "borrow" THEN {"position"}
               ELSE IF scr \in {"stake", "supply"} THEN {"userData"}
               ELSE {}
    /\ submitted = NoSubmit
    /\ stakedAmount = 0
    /\ suppliedAmount = 0
    /\ SessionIdle
    /\ probe = NoProbe

\* the facade functions called directly
Init == PipeInit /\ ScreenInit("none")

Next ==
    \/ Invoke
    \/ GetNetworkReturns
    \/ GetAccountReturns
    \/ SimulateReturns
    \/ SignReturns
    \/ SendReturns
    \/ PollReturns
    \/ SleepReturns

Spec == Init /\ [][Next]_vars

\* the Swap screen
InitSwap == PipeInit /\ ScreenInit("swap")

NextSwap ==
    \/ SwapAmountChanged
    \/ FromAssetChanged
    \/ ToAssetChanged
    \/ LoadBalanceReturns
    \/ handleSwap
    \/ GetNetworkReturns
    \/ GetAccountReturns
    \/ SimulateReturns
    \/ SignReturns
    \/ SendReturns
    \/ PollReturns
    \/ SleepReturns
    \/ handleSwapResumes
    \/ SwapReloadReturns
    \/ ToastTimerFires
    \/ ToastClosed

SpecSwap == InitSwap /\ [][NextSwap]_vars

\* the Borrow screen
InitBorrow == PipeInit /\ ScreenInit("borrow")

NextBorrow ==
    \/ BorrowAmountChanged
    \/ AssetChanged
    \/ LoadUserDataReturns
    \/ handleBorrow
    \/ GetNetworkReturns
    \/ GetAccountReturns
    \/ SimulateReturns
    \/ SignReturns
    \/ SendReturns
    \/ PollReturns
    \/ SleepReturns
    \/ handleBorrowResumes
    \/ BorrowReloadReturns
    \/ ToastTimerFires
    \/ ToastClosed

SpecBorrow == InitBorrow /\ [][NextBorrow]_vars

(***************************************************************************)
(* Amount texts of the screens whose amount field is a text input (Stake,  *)
(* Supply).  Number('.') is NaN; 0.0000001 is positive but smaller than a  *)
(* thousandth, so it is told apart by name.                                *)
(***************************************************************************)
\* isNaN(Number(a))
IsNaN(a) == a = "."

\* Number(a) === 0.0000001
IsTiny(a) == a = "0.0000001"

\* Number(a) <= 0, which is false of NaN
NotPositive(a) == ~IsNaN(a) /\ ~IsTiny(a) /\ AmountMilli(a) <= 0

\* Number(a) > limit (limit in thousandths), which is false of NaN
Exceeds(a, limit) ==
    IF IsNaN(a) THEN FALSE
    ELSE IF IsTiny(a) THEN limit <= 0
    ELSE AmountMilli(a) > limit

\* handleAmountChange of Stake and Supply: value.replace(/[^0-9.]/g, '');
\* a text with two decimal points or more than seven decimals is dropped,
\* which leaves the field as it is
SanitizeAmount(value, current) ==
    CASE value = "-5"    -> "5"
      [] value = "abc"   -> ""
      [] value = "1.2.3" -> current
      [] OTHER           -> value

\* texts typed into the amount field of Stake and Supply
TypedAmounts == {"", ".", "0", "-5", "abc", "1.2.3", "0.0000001", "100", "600", "2000"}

(***************************************************************************)
(* The contract call stubs the Stake and the Supply screen import          *)
(* (getTokenBalance, getStakingInfo, stakeBlend, unstakeBlend,             *)
(* getSupplyInfo, supplyAsset, withdrawAsset): fixed values, and for the   *)
(* operations a timer followed by a made-up hash.  They never reject.      *)
(***************************************************************************)
\* getTokenBalance(): '1000.0000000', in thousandths
StubBalance == 1000000

\* getStakingInfo().stakedAmount and getSupplyInfo().suppliedAmount:
\* '500.0000000', in thousandths
StubDeposited == 500000

\* the texts setMaxAmount / setMaxSupply put into the amount field
MaxText(v) ==
    CASE v = 0             -> "0"
      [] v = StubBalance   -> "1000.0000000"
      [] v = StubDeposited -> "500.0000000"

\* `if (!validateForm(type)) return;`: the handler ends where it began
RejectedForm_errorToast ==
    /\ nextToastId <= MaxToasts
    /\ toasts' = showToast(toasts, createToast(nextToastId, "error", "Invalid amount", <<>>))
    /\ nextToastId' = nextToastId + 1
    /\ UNCHANGED <<caller, hpc, toastId, loading, submitted>>
RejectedForm ==
    UNCHANGED <<caller, hpc, toasts, nextToastId, toastId, loading, submitted>>

\* the operation stub a handler awaits has resolved (its timer fired)
StubReturnsP(scr) ==
    /\ screen = scr
    /\ hpc = "stub"

(***************************************************************************)
(* The Stake screen: components/Stake.tsx                                  *)
(***************************************************************************)
\* Stake.validateAmount
StakeValidateAmount(value, type) ==
    IF value = "" THEN "Amount is required"
    ELSE IF IsNaN(value) \/ NotPositive(value) THEN "Amount must be greater than 0"
    ELSE IF IsTiny(value) THEN "Amount too small (minimum 0.0000001 BLEND)"
    ELSE IF Exceeds(value, IF type = "stake" THEN balance ELSE stakedAmount)
    THEN IF type = "stake" THEN "Insufficient balance" ELSE "Insufficient staked amount"
    ELSE ""

\* Stake.validateForm: the errors it sets
StakeValidateForm(type) ==
    IF ~isConnected \/ publicKey = "null"
    THEN [amount |-> "", general |-> "Please connect your Freighter wallet"]
    ELSE [amount |-> StakeValidateAmount(amount, type), general |-> ""]

otherFormVars == <<formVarsBorrow, fromAsset, toAsset>>

\* handleAmountChange
StakeSetAmount(value) ==
    /\ screen = "stake"
    /\ isConnected /\ ~loading
    /\ amount' = SanitizeAmount(value, amount)
    /\ errors' = IF value = "1.2.3"
                 THEN errors
                 ELSE [errors EXCEPT !.amount = ""]
    /\ UNCHANGED <<pipeVars, caller, hpc, walletVars, toasts, nextToastId, toastId,
                   loading, otherFormVars, balance, loads, screen, submitted, extVars>>

\* the mount effect's loadUserData resolved: Promise.all of the two stubs
StakeLoadUserDataReturns ==
    /\ screen = "stake"
    /\ "userData" \in loads
    /\ loads' = loads \ {"userData"}
    /\ balance' = StubBalance
    /\ stakedAmount' = StubDeposited
    /\ UNCHANGED <<pipeVars, caller, hpc, walletVars, toasts, nextToastId, toastId,
                   loading, errors, amount, otherFormVars, screen, submitted,
                   suppliedAmount, sessionVars, probe>>

\* buttons that stay enabled while the screen is loading
StakeHandlerStart_ignoresLoading(type) ==
    /\ screen = "stake"
    /\ isConnected /\ amount # "" /\ ~NotPositive(amount)
    /\ type = "unstake" => stakedAmount > 0
    /\ errors' = StakeValidateForm(type)
    /\ IF StakeValidateForm(type) # NoErrors
       THEN RejectedForm
       ELSE /\ nextToastId <= MaxToasts
            /\ toasts' = showToast(toasts,
                   createToast(nextToastId, "loading",
                       IF type = "stake" THEN "Staking BLEND tokens..."
                       ELSE "Unstaking BLEND tokens...", <<>>))
            /\ toastId' = nextToastId
            /\ nextToastId' = nextToastId + 1
            /\ loading' = TRUE
            /\ caller' = IF type = "stake" THEN "handleStake" ELSE "handleUnstake"
            /\ hpc' = "stub"
            /\ submitted' = [fn |-> IF type = "stake" THEN "stakeBlend" ELSE "unstakeBlend",
                             asset |-> "BLND", amount |-> amount, coll |-> 0, debt |-> 0]
    /\ UNCHANGED <<pipeVars, walletVars, amount, otherFormVars, balance, loads,
                   screen, extVars>>

\* handleStake / handleUnstake from the click to the await of the stub; the
\* buttons are disabled while loading, without an amount, with an amount
\* that is not positive and, for Unstake, with nothing staked
StakeHandlerStart(type) ==
    /\ screen = "stake"
    /\ isConnected /\ ~loading /\ amount # "" /\ ~NotPositive(amount)
    /\ type = "unstake" => stakedAmount > 0
    /\ errors' = StakeValidateForm(type)
    /\ IF StakeValidateForm(type) # NoErrors
       THEN RejectedForm
       ELSE /\ nextToastId <= MaxToasts
            /\ toasts' = showToast(toasts,
                   createToast(nextToastId, "loading",
                       IF type = "stake" THEN "Staking BLEND tokens..."
                       ELSE "Unstaking BLEND tokens...", <<>>))
            /\ toastId' = nextToastId
            /\ nextToastId' = nextToastId + 1
            /\ loading' = TRUE
            /\ caller' = IF type = "stake" THEN "handleStake" ELSE "handleUnstake"
            /\ hpc' = "stub"
            /\ submitted' = [fn |-> IF type = "stake" THEN "stakeBlend" ELSE "unstakeBlend",
                             asset |-> "BLND", amount |-> amount, coll |-> 0, debt |-> 0]
    /\ UNCHANGED <<pipeVars, walletVars, amount, otherFormVars, balance, loads,
                   screen, extVars>>

handleStake == StakeHandlerStart("stake")
handleUnstake == StakeHandlerStart("unstake")

\* the toast update of handleStake / handleUnstake after the stub resolved:
\* only the type and the title are given
StakeSuccessToast(type) ==
    [type |-> "success",
     title |-> IF type = "handleStake" THEN "Successfully staked BLEND tokens!"
               ELSE "Successfully unstaked tokens and claimed 25.0000000 BLND rewards!"]

\* handleStake / handleUnstake after the await of the stub: the toast is
\* updated, the field cleared and refreshData awaited
StakeHandlerResumes ==
    /\ StubReturnsP("stake")
    /\ toasts' = updateToast(toasts, toastId, StakeSuccessToast(caller))
    /\ amount' = ""
    /\ hpc' = "reload"
    /\ UNCHANGED <<pipeVars, caller, walletVars, nextToastId, toastId, loading,
                   errors, otherFormVars, balance, loads, screen, submitted, extVars>>

\* a handler whose loading flag is not cleared when it ends
StakeReloadReturns_keepsLoading ==
    /\ screen = "stake"
    /\ hpc = "reload"
    /\ balance' = StubBalance
    /\ stakedAmount' = StubDeposited
    /\ hpc' = "idle"
    /\ UNCHANGED <<pipeVars, caller, walletVars, toasts, nextToastId, toastId, loading,
                   errors, amount, otherFormVars, loads, screen, submitted,
                   suppliedAmount, sessionVars, probe>>

\* refreshData resolved; the finally block clears the loading flag
StakeReloadReturns ==
    /\ screen = "stake"
    /\ hpc = "reload"
    /\ balance' = StubBalance
    /\ stakedAmount' = StubDeposited
    /\ loading' = FALSE
    /\ hpc' = "idle"
    /\ UNCHANGED <<pipeVars, caller, walletVars, toasts, nextToastId, toastId,
                   errors, amount, otherFormVars, loads, screen, submitted,
                   suppliedAmount, sessionVars, probe>>

\* the Max button: setAmount(balance)
StakeSetMaxAmount ==
    /\ screen = "stake"
    /\ isConnected /\ ~loading
    /\ amount' = MaxText(balance)
    /\ UNCHANGED <<pipeVars, caller, hpc, walletVars, toasts, nextToastId, toastId,
                   loading, errors, otherFormVars, balance, loads, screen, submitted,
                   extVars>>

StakeAmountChanged == \E v \in TypedAmounts : StakeSetAmount(v)

\* the Stake screen; none of its toasts ever carries a duration other than 0,
\* so the timer of the Toast component is never started on it
InitStake == PipeInit /\ ScreenInit("stake")

NextStake ==
    \/ StakeAmountChanged
    \/ StakeSetMaxAmount
    \/ StakeLoadUserDataReturns
    \/ handleStake
    \/ handleUnstake
    \/ StakeHandlerResumes
    \/ StakeReloadReturns
    \/ ToastClosed

SpecStake == InitStake /\ [][NextStake]_vars

(***************************************************************************)
(* The Supply screen (the component App.tsx mounts on /supply, with the    *)
(* Supply and the Withdraw button)                                         *)
(***************************************************************************)
\* assets offered by the model's asset selector
SupplyAssets == {"BLND", "USDC"}

\* Supply.validateForm: the errors it sets.  `!amount || Number(amount) <= 0`
\* is false of a text that is not a number, and so are the two comparisons
\* that follow it
SupplyValidateForm(type) ==
    IF ~isConnected \/ publicKey = "null"
    THEN [amount |-> "", general |-> "Please connect your Freighter wallet"]
    ELSE [amount |->
              IF amount = "" \/ NotPositive(amount) THEN "Please enter a valid amount"
              ELSE IF type = "supply"
              THEN IF Exceeds(amount, balance) THEN "Insufficient balance" ELSE ""
              ELSE IF Exceeds(amount, suppliedAmount)
                   THEN "Insufficient supplied amount" ELSE "",
          general |-> ""]

\* handleAmountChange
SupplySetAmount(value) ==
    /\ screen = "supply"
    /\ isConnected /\ ~loading
    /\ amount' = SanitizeAmount(value, amount)
    /\ errors' = IF value = "1.2.3" THEN errors ELSE [errors EXCEPT !.amount = ""]
    /\ UNCHANGED <<pipeVars, caller, hpc, walletVars, toasts, nextToastId, toastId,
                   loading, otherFormVars, balance, loads, screen, submitted, extVars>>

\* the asset select: setSelectedAsset
SetSelectedAsset(a) ==
    /\ screen = "supply"
    /\ isConnected /\ ~loading
    /\ a # asset
    /\ asset' = a
    /\ UNCHANGED <<pipeVars, caller, hpc, walletVars, toasts, nextToastId, toastId,
                   loading, errors, amount, userPosition, projectedHealth,
                   maxBorrowable, fromAsset, toAsset, balance, loads, screen,
                   submitted, extVars>>

\* the Max button: setAmount(balances[selectedAsset.symbol] || '0')
setMaxSupply ==
    /\ screen = "supply"
    /\ isConnected /\ ~loading
    /\ amount' = MaxText(balance)
    /\ UNCHANGED <<pipeVars, caller, hpc, walletVars, toasts, nextToastId, toastId,
                   loading, errors, otherFormVars, balance, loads, screen, submitted,
                   extVars>>

\* the mount effect's loadUserData resolved: every asset's balance is the
\* stub's value
SupplyLoadUserDataReturns ==
    /\ screen = "supply"
    /\ "userData" \in loads
    /\ loads' = loads \ {"userData"}
    /\ balance' = StubBalance
    /\ suppliedAmount' = StubDeposited
    /\ UNCHANGED <<pipeVars, caller, hpc, walletVars, toasts, nextToastId, toastId,
                   loading, errors, amount, otherFormVars, screen, submitted,
                   stakedAmount, sessionVars, probe>>

\* handleSupply / handleWithdraw from the click to the await of the stub
SupplyHandlerStart(type) ==
    /\ screen = "supply"
    /\ isConnected /\ ~loading /\ amount # "" /\ ~NotPositive(amount)
    /\ type = "withdraw" => suppliedAmount > 0
    /\ errors' = SupplyValidateForm(type)
    /\ IF SupplyValidateForm(type) # NoErrors
       THEN RejectedForm
       ELSE /\ nextToastId <= MaxToasts
            /\ toasts' = showToast(toasts,
                   createToast(nextToastId, "loading",
                       IF type = "supply" THEN "Supplying assets..."
                       ELSE "Withdrawing assets...", <<>>))
            /\ toastId' = nextToastId
            /\ nextToastId' = nextToastId + 1
            /\ loading' = TRUE
            /\ caller' = IF type = "supply" THEN "handleSupply" ELSE "handleWithdraw"
            /\ hpc' = "stub"
            /\ submitted' = [fn |-> IF type = "supply" THEN "supplyAsset" ELSE "withdrawAsset",
                             asset |-> asset, amount |-> amount, coll |-> 0, debt |-> 0]
    /\ UNCHANGED <<pipeVars, walletVars, amount, otherFormVars, balance, loads,
                   screen, extVars>>

handleSupply == SupplyHandlerStart("supply")
handleWithdraw == SupplyHandlerStart("withdraw")

\* the toast update of handleSupply / handleWithdraw after the stub resolved
SupplySuccessToast(type) ==
    [type |-> "success",
     title |-> IF type = "handleSupply"
               THEN <<"Successfully supplied", amount, asset>>
               ELSE <<"Successfully withdrew", amount, asset>>]

\* handleSupply / handleWithdraw after the await of the stub
SupplyHandlerResumes ==
    /\ StubReturnsP("supply")
    /\ toasts' = updateToast(toasts, toastId, SupplySuccessToast(caller))
    /\ amount' = ""
    /\ hpc' = "reload"
    /\ UNCHANGED <<pipeVars, caller, walletVars, nextToastId, toastId, loading,
                   errors, otherFormVars, balance, loads, screen, submitted, extVars>>

\* loadUserData resolved; the finally block clears the loading flag
SupplyReloadReturns ==
    /\ screen = "supply"
    /\ hpc = "reload"
    /\ balance' = StubBalance
    /\ suppliedAmount' = StubDeposited
    /\ loading' = FALSE
    /\ hpc' = "idle"
    /\ UNCHANGED <<pipeVars, caller, walletVars, toasts, nextToastId, toastId,
                   errors, amount, otherFormVars, loads, screen, submitted,
                   stakedAmount, sessionVars, probe>>

SupplyAmountChanged == \E v \in TypedAmounts : SupplySetAmount(v)
SelectedAssetChanged == \E a \in SupplyAssets : SetSelectedAsset(a)

\* the Supply screen; as on the Stake screen no toast timer is ever started
InitSupply == PipeInit /\ ScreenInit("supply")

NextSupply ==
    \/ SupplyAmountChanged
    \/ SelectedAssetChanged
    \/ setMaxSupply
    \/ SupplyLoadUserDataReturns
    \/ handleSupply
    \/ handleWithdraw
    \/ SupplyHandlerResumes
    \/ SupplyReloadReturns
    \/ ToastClosed

SpecSupply == InitSupply /\ [][NextSupply]_vars

(***************************************************************************)
(* The application with one of its four operation screens mounted          *)
(***************************************************************************)
Screens == {"swap", "borrow", "stake", "supply"}

InitApp == PipeInit /\ \E scr \in Screens : ScreenInit(scr)

NextApp ==
    \/ NextSwap
    \/ NextBorrow
    \/ NextStake
    \/ NextSupply

SpecApp == InitApp /\ [][NextApp]_vars

\* the application with its timers: a toast timer that is set fires
SpecAppLive == SpecApp /\ WF_vars(ToastTimerFires)

\* the steps by which a started handler goes on: a response to the call the
\* facade awaits, the timer of the poll loop, and the continuation of the
\* handler after its awaits
HandlerProgress ==
    \/ GetNetworkReturns
    \/ GetAccountReturns
    \/ SimulateReturns
    \/ SignReturns
    \/ SendReturns
    \/ PollReturns
    \/ SleepReturns
    \/ handleSwapResumes
    \/ SwapReloadReturns
    \/ handleBorrowResumes
    \/ BorrowReloadReturns
    \/ StakeHandlerResumes
    \/ StakeReloadReturns
    \/ SupplyHandlerResumes
    \/ SupplyReloadReturns

\* the application when every awaited call settles and every timer fires
SpecAppFair == SpecApp /\ WF_vars(HandlerProgress)

(***************************************************************************)
(* The wallet session.  Three adapters provide it:                         *)
(*   "kit"      context/WalletContext.tsx (stellar-wallets-kit modal)      *)
(*   "hook"     lib/useFreighter.ts                                        *)
(*   "provider" the Freighter WalletProvider with refreshConnection        *)
(* connect() is followed await by await (cpc); the modal's callbacks, the  *)
(* mount effect and the 30 s refresh are events of their own.              *)
(***************************************************************************)
Adapters == {"kit", "hook", "provider"}
FreighterAdapters == {"hook", "provider"}

\* const DEFAULT_NETWORK
DEFAULT_NETWORK == "TESTNET"

\* what the extension answers to isConnected()
IsConnectedResults == {"connected", "absent", "error", "throws"}
\* what isAllowed() and setAllowed() resolve to, as the test `!x` sees it
AllowedResults == {"truthy", "falsy", "throws"}
\* what requestAccess() and getAddress() answer
AccessResults == {"address", "rejected", "error", "throws"}
\* what getNetwork() answers ("" is an empty network field)
GetNetworkResults == {"TESTNET", "PUBLIC", "", "error", "throws"}
\* what the extension answers to a query of a connected adapter
QueryResults == {"value", "error", "throws"}
\* the adapter functions that query the wallet
QueryFns == {"getAddress", "getNetworkDetails", "signTransaction"}
\* the argument the kit hands to onClosed
ClosedErrors == {"null", "Modal closed"}

NotInstalledError == "Freighter wallet is not installed"
PermissionDeniedError == "Permission denied"
RejectedError == "User declined access"
NoAddressError == "Could not get address from Freighter."
ConnectFailedError == "Failed to connect to Freighter wallet"
KitConnectFailedError == "Failed to connect to wallet"
NotConnectedError == "Wallet not connected"

\* the session state the specification names, read off the adapter's state
SessionState ==
    IF isConnected THEN "Connected"
    ELSE IF isLoading THEN "Connecting"
    ELSE IF error # "null" THEN "Error"
    ELSE "Disconnected"

walletFrame == <<pipeVars, caller, hpc, nextToastId, toastId, loading, errors,
                 amount, formVarsBorrow, fromAsset, toAsset, balance, screen,
                 submitted, mockVars, probe, adapter>>

\* an id no toast on screen carries (Date.now() and a random suffix)
FreshToastId == CHOOSE i \in 1..MaxToasts : \A j \in DOMAIN toasts : toasts[j].id # i

\* showToast(type, title, {message}) of the kit adapter; the other adapters
\* show no toasts
WalletToast(type, title, message) ==
    /\ Len(toasts) < MaxToasts
    /\ toasts' = showToast(toasts, createToast(FreshToastId, type, title, message))

\* checkConnection: result.error ? false : result.isConnected, false on a throw
checkConnection(r) == r = "connected"

\* connect() left through one of its `return false` paths
ConnectFails(msg) ==
    /\ error' = msg
    /\ isLoading' = FALSE
    /\ cpc' = "idle"
    /\ connectResult' = "false"
    /\ UNCHANGED <<isConnected, sessionNetwork, walletId, modal, lastQuery, toasts, loads>>

\* connect(): the synchronous part, up to the first await.  The button that
\* calls it is rendered while not connected and disabled while isLoading.
\* lastQuery records the call, as it does for disconnect() and the queries.
connect ==
    /\ screen = "wallet"
    /\ ~isConnected /\ ~isLoading /\ cpc = "idle" /\ modal = "closed"
    /\ isLoading' = TRUE
    /\ error' = "null"
    /\ connectResult' = "pending"
    /\ cpc' = IF adapter = "kit" THEN "openModal" ELSE "checkConnection"
    /\ modal' = IF adapter = "kit" THEN "open" ELSE modal
    /\ lastQuery' = [fn |-> "connect", outcome |-> "pending",
                     value |-> SessionState, extCalls |-> 0]
    /\ UNCHANGED <<isConnected, publicKey, sessionNetwork, walletId,
                   toasts, loads, walletFrame>>

\* await checkConnection()
ConnectCheckReturnsP(r) ==
    /\ cpc = "checkConnection"
    /\ IF checkConnection(r)
       THEN /\ cpc' = "isAllowed"
            /\ UNCHANGED <<isConnected, publicKey, sessionNetwork, walletId, isLoading,
                           error, connectResult, modal, lastQuery, toasts, loads>>
       ELSE ConnectFails(NotInstalledError) /\ UNCHANGED publicKey
    /\ UNCHANGED walletFrame

\* await isAllowed()
ConnectIsAllowedReturnsP(r) ==
    /\ cpc = "isAllowed"
    /\ IF r = "throws"
       THEN ConnectFails(ConnectFailedError) /\ UNCHANGED publicKey
       ELSE /\ cpc' = IF r = "falsy" THEN "setAllowed" ELSE "requestAccess"
            /\ UNCHANGED <<isConnected, publicKey, sessionNetwork, walletId, isLoading,
                           error, connectResult, modal, lastQuery, toasts, loads>>
    /\ UNCHANGED walletFrame

\* await setAllowed()
ConnectSetAllowedReturnsP(r) ==
    /\ cpc = "setAllowed"
    /\ IF r = "throws"
       THEN ConnectFails(ConnectFailedError) /\ UNCHANGED publicKey
       ELSE IF r = "falsy"
       THEN ConnectFails(PermissionDeniedError) /\ UNCHANGED publicKey
       ELSE /\ cpc' = "requestAccess"
            /\ UNCHANGED <<isConnected, publicKey, sessionNetwork, walletId, isLoading,
                           error, connectResult, modal, lastQuery, toasts, loads>>
    /\ UNCHANGED walletFrame

\* await requestAccess(); the hook stores the address before it asks for the
\* network
ConnectRequestAccessReturnsP(r) ==
    /\ cpc = "requestAccess"
    /\ IF r = "throws"
       THEN ConnectFails(ConnectFailedError) /\ UNCHANGED publicKey
       ELSE IF r = "rejected"
       THEN ConnectFails(RejectedError) /\ UNCHANGED publicKey
       ELSE IF r = "error"
       THEN ConnectFails(NoAddressError) /\ UNCHANGED publicKey
       ELSE /\ cpc' = "getNetwork"
            /\ publicKey' = IF adapter = "hook" THEN "GUSER" ELSE publicKey
            /\ UNCHANGED <<isConnected, sessionNetwork, walletId, isLoading, error,
                           connectResult, modal, lastQuery, toasts, loads>>
    /\ UNCHANGED walletFrame

\* networkResult.error ? DEFAULT_NETWORK : (networkResult.network || DEFAULT_NETWORK)
NetworkOf(r) == IF r \in {"error", ""} THEN DEFAULT_NETWORK ELSE r

\* await getNetwork(), and the rest of connect()
ConnectGetNetworkReturnsP(r) ==
    /\ cpc = "getNetwork"
    /\ IF r = "throws"
       THEN ConnectFails(ConnectFailedError) /\ UNCHANGED publicKey
       ELSE /\ isConnected' = TRUE
            /\ publicKey' = "GUSER"
            /\ sessionNetwork' = NetworkOf(r)
            /\ isLoading' = FALSE
            /\ error' = IF adapter = "provider" THEN "null" ELSE error
            /\ cpc' = "idle"
            /\ connectResult' = "true"
            /\ UNCHANGED <<walletId, modal, lastQuery, toasts, loads>>
    /\ UNCHANGED walletFrame

\* await kit.openModal(...): the promise settles once the modal is on screen;
\* `return true` follows, whatever the user does with the modal afterwards
OpenModalReturnsP(ok) ==
    /\ cpc = "openModal"
    /\ cpc' = "idle"
    /\ IF ok
       THEN /\ connectResult' = "true"
            /\ UNCHANGED <<isLoading, error, modal, toasts>>
       ELSE /\ modal = "open"
            /\ modal' = "closed"
            /\ connectResult' = "false"
            /\ isLoading' = FALSE
            /\ error' = KitConnectFailedError
            /\ WalletToast("error", "Wallet Connection Error", KitConnectFailedError)
    /\ UNCHANGED <<isConnected, publicKey, sessionNetwork, walletId, lastQuery, loads,
                   walletFrame>>

\* onWalletSelected, up to `await kit.getAddress()`
onWalletSelected ==
    /\ modal = "open"
    /\ modal' = "selected"
    /\ UNCHANGED <<isConnected, publicKey, sessionNetwork, walletId, isLoading, error,
                   cpc, connectResult, lastQuery, toasts, loads, walletFrame>>

\* onWalletSelected, after kit.getAddress() settled; a rejection leaves the
\* callback through an unhandled rejection
KitGetAddressReturnsP(r) ==
    /\ modal = "selected"
    /\ modal' = "closed"
    /\ IF r = "address"
       THEN /\ isConnected' = TRUE
            /\ publicKey' = "GUSER"
            /\ sessionNetwork' = "TESTNET"
            /\ isLoading' = FALSE
            /\ error' = "null"
            /\ walletId' = "freighter"
            /\ WalletToast("success", "Wallet Connected", "Connected to wallet")
       ELSE UNCHANGED <<isConnected, publicKey, sessionNetwork, isLoading, error,
                        walletId, toasts>>
    /\ UNCHANGED <<cpc, connectResult, lastQuery, loads, walletFrame>>

\* onClosed(err): the user closed the modal without selecting a wallet
onClosedP(err) ==
    /\ modal = "open"
    /\ modal' = "closed"
    /\ isLoading' = FALSE
    /\ error' = err
    /\ IF err # "null"
       THEN WalletToast("error", "Wallet Connection Cancelled", err)
       ELSE WalletToast("info", "Wallet Connection Cancelled", "No wallet was selected.")
    /\ UNCHANGED <<isConnected, publicKey, sessionNetwork, walletId, cpc,
                   connectResult, lastQuery, loads, walletFrame>>

\* the session disconnect() leaves behind
DisconnectedSession_keepsNetwork ==
    /\ isConnected' = FALSE
    /\ publicKey' = "null"
    /\ UNCHANGED sessionNetwork
    /\ error' = "null"

DisconnectedSession ==
    /\ isConnected' = FALSE
    /\ publicKey' = "null"
    /\ sessionNetwork' = "null"
    /\ error' = "null"

\* disconnect(): the kit and the provider replace the whole state and the
\* kit shows a toast; the hook resets five of its fields and leaves isLoading.
\* lastQuery records the call and the session state it was made in.
disconnect ==
    /\ screen = "wallet"
    /\ DisconnectedSession
    /\ walletId' = "null"
    /\ isLoading' = IF adapter = "hook" THEN isLoading ELSE FALSE
    /\ IF adapter = "kit"
       THEN WalletToast("info", "Wallet Disconnected", "You have disconnected your wallet.")
       ELSE UNCHANGED toasts
    /\ lastQuery' = [fn |-> "disconnect", outcome |-> "return",
                     value |-> SessionState, extCalls |-> 0]
    /\ UNCHANGED <<cpc, connectResult, modal, loads, walletFrame>>

\* the outcome of an adapter query: whether it returns or throws, the value
\* or message, and the number of calls made to the wallet
AdapterQuery(a, fn, connected, r) ==
    IF a = "kit" /\ fn = "getNetworkDetails"
    THEN [fn |-> fn, outcome |-> "return", value |-> "TESTNET", extCalls |-> 0]
    ELSE IF ~connected
    THEN [fn |-> fn, outcome |-> "throw", value |-> NotConnectedError, extCalls |-> 0]
    ELSE IF r = "value" \/ (r = "error" /\ a # "kit" /\ fn = "getNetworkDetails")
    THEN [fn |-> fn, outcome |-> "return", value |-> r, extCalls |-> 1]
    ELSE [fn |-> fn, outcome |-> "throw", value |-> "wallet error", extCalls |-> 1]

\* signTransaction, getAddress, getNetworkDetails of the adapter
QueryP(fn, r) ==
    /\ screen = "wallet"
    /\ lastQuery' = AdapterQuery(adapter, fn, isConnected, r)
    /\ UNCHANGED <<isConnected, publicKey, sessionNetwork, walletId, isLoading, error,
                   cpc, connectResult, modal, toasts, loads, walletFrame>>

\* the mount effect: initializeConnection (hook) and refreshConnection
\* (provider) adopt a session the extension already allows; the hook sets
\* the address and isConnected before it asks for the network
RefreshReturnsP(r) ==
    /\ "refresh" \in loads
    /\ IF r \in {"TESTNET", "PUBLIC"}
       THEN /\ isConnected' = TRUE
            /\ publicKey' = "GUSER"
            /\ sessionNetwork' = IF adapter = "hook" THEN sessionNetwork ELSE r
            /\ error' = IF adapter = "provider" THEN "null" ELSE error
            /\ loads' = IF adapter = "hook" THEN {"refreshNetwork"} ELSE {}
       ELSE /\ loads' = {}
            /\ UNCHANGED <<isConnected, publicKey, sessionNetwork, error>>
    /\ UNCHANGED <<walletId, isLoading, cpc, connectResult, modal, lastQuery,
                   toasts, walletFrame>>

\* initializeConnection of the hook, after getNetwork() settled
RefreshNetworkReturnsP(r) ==
    /\ "refreshNetwork" \in loads
    /\ loads' = {}
    /\ IF r = "throws"
       THEN UNCHANGED sessionNetwork
       ELSE sessionNetwork' = NetworkOf(r)
    /\ UNCHANGED <<isConnected, publicKey, walletId, isLoading, error, cpc,
                   connectResult, modal, lastQuery, toasts, walletFrame>>

\* the 30 s interval of the provider: refreshConnection() while connected
RefreshTick ==
    /\ screen = "wallet"
    /\ adapter = "provider"
    /\ isConnected
    /\ loads = {}
    /\ loads' = {"refresh"}
    /\ UNCHANGED <<isConnected, publicKey, sessionNetwork, walletId, isLoading, error,
                   cpc, connectResult, modal, lastQuery, toasts, walletFrame>>

ConnectCheckReturns == \E r \in IsConnectedResults : ConnectCheckReturnsP(r)
ConnectIsAllowedReturns == \E r \in AllowedResults : ConnectIsAllowedReturnsP(r)
ConnectSetAllowedReturns == \E r \in AllowedResults : ConnectSetAllowedReturnsP(r)
ConnectRequestAccessReturns == \E r \in AccessResults : ConnectRequestAccessReturnsP(r)
ConnectGetNetworkReturns == \E r \in GetNetworkResults : ConnectGetNetworkReturnsP(r)
OpenModalReturns == \E ok \in BOOLEAN : OpenModalReturnsP(ok)
KitGetAddressReturns == \E r \in {"address", "throws"} : KitGetAddressReturnsP(r)
onClosed == \E err \in ClosedErrors : onClosedP(err)
Query == \E fn \in QueryFns, r \in QueryResults : QueryP(fn, r)
RefreshReturns == \E r \in {"none", "TESTNET", "PUBLIC"} : RefreshReturnsP(r)
RefreshNetworkReturns == \E r \in GetNetworkResults : RefreshNetworkReturnsP(r)

\* the page after the wallet provider mounted: the useState initial values
InitWallet ==
    /\ PipeInit
    /\ screen = "wallet"
    /\ adapter \in Adapters
    /\ caller = "none"
    /\ hpc = "idle"
    /\ isConnected = FALSE
    /\ publicKey = "null"
    /\ sessionNetwork = "null"
    /\ walletId = "null"
    /\ isLoading = FALSE
    /\ error = "null"
    /\ cpc = "idle"
    /\ connectResult = "none"
    /\ modal = "closed"
    /\ lastQuery = NoQuery
    /\ toasts = <<>>
    /\ nextToastId = 1
    /\ toastId = 0
    /\ loading = FALSE
    /\ errors = NoErrors
    /\ amount = ""
    /\ asset = "XLM"
    /\ userPosition = NoPosition
    /\ projectedHealth = NoHealth
    /\ maxBorrowable = 0
    /\ fromAsset = "XLM"
    /\ toAsset = "BLND"
    /\ balance = 0
    /\ loads = IF adapter \in FreighterAdapters THEN {"refresh"} ELSE {}
    /\ submitted = NoSubmit
    /\ stakedAmount = 0
    /\ suppliedAmount = 0
    /\ probe = NoProbe

NextWallet ==
    \/ connect
    \/ ConnectCheckReturns
    \/ ConnectIsAllowedReturns
    \/ ConnectSetAllowedReturns
    \/ ConnectRequestAccessReturns
    \/ ConnectGetNetworkReturns
    \/ OpenModalReturns
    \/ onWalletSelected
    \/ KitGetAddressReturns
    \/ onClosed
    \/ disconnect
    \/ Query
    \/ RefreshReturns
    \/ RefreshNetworkReturns
    \/ RefreshTick
    \/ ToastTimerFires

SpecWallet == InitWallet /\ [][NextWallet]_vars

\* the steps the wallet and the user owe a started connect(): the answers
\* to the calls connect() awaits, the promise of openModal, and the end of
\* the selection modal (a wallet selected, or the modal closed)
WalletProgress ==
    \/ ConnectCheckReturns
    \/ ConnectIsAllowedReturns
    \/ ConnectSetAllowedReturns
    \/ ConnectRequestAccessReturns
    \/ ConnectGetNetworkReturns
    \/ OpenModalReturns
    \/ onWalletSelected
    \/ KitGetAddressReturns
    \/ onClosed
    \/ ToastTimerFires

\* the wallet session when every awaited call settles, the user ends every
\* modal and every toast timer fires
SpecWalletFair == SpecWallet /\ WF_vars(WalletProgress)

(***************************************************************************)
(* The toast queue by itself: showToast, updateToast and removeToast of    *)
(* the ToastProvider, called in any order by the components                *)
(***************************************************************************)
\* number of toasts shown in one behaviour of SpecToast
MaxShown == 3

\* the `updates` the components pass to updateToast
UpdatePayloads ==
    { [type |-> "success", title |-> "Stake Successful"],
      [type |-> "success", title |-> "Swap Successful", hash |-> "h1"],
      [type |-> "error", title |-> "Swap Failed", message |-> "boom", duration |-> 5000] }

toastFrame == <<pipeVars, caller, hpc, walletVars, toastId, loading, errors, amount,
                formVarsBorrow, fromAsset, toAsset, balance, loads, screen,
                submitted, mockVars, sessionVars>>

\* showToast(type, title, options) of the provider
ShowToastP(type) ==
    /\ screen = "toast"
    /\ nextToastId <= MaxShown
    /\ toasts' = showToast(toasts, createToast(nextToastId, type, "Title", "text"))
    /\ nextToastId' = nextToastId + 1
    /\ UNCHANGED <<probe, toastFrame>>

\* updateToast(id, updates) of the provider; probe keeps the last two calls
UpdateToastP(id, updates) ==
    /\ screen = "toast"
    /\ toasts' = updateToast(toasts, id, updates)
    /\ probe' = [fn |-> "updateToast", id |-> id, updates |-> updates,
                 before |-> IF probe.fn = "updateToast" /\ probe.id = id
                            THEN <<probe.updates>> ELSE <<>>]
    /\ UNCHANGED <<nextToastId, toastFrame>>

\* removeToast(id) of the provider
RemoveToastP(id) ==
    /\ screen = "toast"
    /\ \E i \in DOMAIN toasts : toasts[i].id = id
    /\ toasts' = dismissToast(toasts, id)
    /\ UNCHANGED <<nextToastId, probe, toastFrame>>

ShowToast == \E type \in {"loading", "info"} : ShowToastP(type)
UpdateToast == \E id \in 1..MaxShown, u \in UpdatePayloads : UpdateToastP(id, u)
RemoveToast == \E id \in 1..MaxShown : RemoveToastP(id)

InitToast == PipeInit /\ ScreenInit("toast") /\ ~isConnected /\ ~freighterInstalled

NextToast ==
    \/ ShowToast
    \/ UpdateToast
    \/ RemoveToast

SpecToast == InitToast /\ [][NextToast]_vars

(***************************************************************************)
(* Amount conversion: lib/stellar-utils.ts.  The code computes with IEEE   *)
(* 754 doubles; a double is modelled exactly, as mant * 2^exp with mant an *)
(* unbounded natural number written in limbs of 15 bits, least significant *)
(* first, and every operation rounds to 53 bits, ties to even.             *)
(***************************************************************************)
\* largest base amount converted
MaxBase == 60

LimbBase == 32768
LimbBits == 15
\* precision of a double
MantBits == 53
\* bits of the scaled dividend: enough for a quotient of more than 54 bits
\* when the divisor is 5^18
ScaleBits == 96

CodecAssets == {"XLM", "BLND", "USDC", "wETH", "wBTC"}

\* getAssetDecimals
getAssetDecimals(a) ==
    CASE a = "XLM"  -> 7
      [] a = "BLND" -> 7
      [] a = "USDC" -> 6
      [] a = "wETH" -> 18
      [] a = "wBTC" -> 8
      [] OTHER      -> 7

RECURSIVE FromInt(_)
FromInt(n) == IF n = 0 THEN <<>> ELSE <<n % LimbBase>> \o FromInt(n \div LimbBase)

RECURSIVE ToInt(_)
ToInt(a) == IF a = <<>> THEN 0 ELSE a[1] + LimbBase * ToInt(Tail(a))

RECURSIVE Strip(_)
Strip(a) ==
    IF a = <<>> \/ a[Len(a)] # 0 THEN a ELSE Strip(SubSeq(a, 1, Len(a) - 1))

RECURSIVE MulSmall(_, _, _)
MulSmall(a, m, carry) ==
    IF a = <<>> THEN FromInt(carry)
    ELSE LET v == a[1] * m + carry
         IN  <<v % LimbBase>> \o MulSmall(Tail(a), m, v \div LimbBase)

RECURSIVE DivFrom(_, _, _, _)
DivFrom(a, i, m, rem) ==
    IF i = 0 THEN [q |-> <<>>, r |-> rem]
    ELSE LET v == rem * LimbBase + a[i]
             rest == DivFrom(a, i - 1, m, v % m)
         IN  [q |-> Append(rest.q, v \div m), r |-> rest.r]

\* a \div m and a % m for a small m
DivSmall(a, m) ==
    LET d == DivFrom(a, Len(a), m, 0) IN [q |-> Strip(d.q), r |-> d.r]

\* a \div 5^k, with sticky: whether any remainder was dropped; six powers
\* of 5 are divided out at a time
RECURSIVE DivPow5(_, _, _)
DivPow5(a, k, sticky) ==
    IF k = 0 THEN [v |-> a, sticky |-> sticky]
    ELSE LET c == IF k >= 6 THEN 6 ELSE k
             d == DivSmall(a, 5^c)
         IN  DivPow5(d.q, k - c, sticky \/ d.r # 0)

\* a * 10^k, four powers of 10 at a time
RECURSIVE MulPow10(_, _)
MulPow10(a, k) ==
    IF k = 0 THEN a
    ELSE LET c == IF k >= 4 THEN 4 ELSE k
         IN  MulPow10(MulSmall(a, 10^c, 0), k - c)

\* a * 2^k
ShiftLeft(a, k) ==
    IF a = <<>> THEN <<>>
    ELSE [i \in 1..(k \div LimbBits) |-> 0] \o MulSmall(a, 2^(k % LimbBits), 0)

\* a \div 2^k, with sticky
ShiftRight(a, k, sticky) ==
    LET w == IF k \div LimbBits < Len(a) THEN k \div LimbBits ELSE Len(a)
        d == DivSmall(SubSeq(a, w + 1, Len(a)), 2^(k % LimbBits))
    IN  [v |-> d.q,
         sticky |-> sticky \/ d.r # 0 \/ \E i \in 1..w : a[i] # 0]

RECURSIVE IntBitLen(_)
IntBitLen(n) == IF n = 0 THEN 0 ELSE 1 + IntBitLen(n \div 2)

BitLen(a) == IF a = <<>> THEN 0 ELSE LimbBits * (Len(a) - 1) + IntBitLen(a[Len(a)])

RECURSIVE AddSmall(_, _)
AddSmall(a, c) ==
    IF c = 0 THEN a
    ELSE IF a = <<>> THEN <<c>>
    ELSE LET v == a[1] + c IN <<v % LimbBase>> \o AddSmall(Tail(a), v \div LimbBase)

IsOdd(a) == a # <<>> /\ a[1] % 2 = 1

\* the double nearest to n * 2^e (n of more than 53 bits, `sticky` telling
\* that n was truncated), ties to even
RoundDouble(n, e, sticky) ==
    LET h == BitLen(n) - (MantBits + 1)
        s == ShiftRight(n, h, sticky)
        half == ShiftRight(s.v, 1, FALSE)
        up == half.sticky /\ (s.sticky \/ IsOdd(half.v))
    IN  [mant |-> IF up THEN AddSmall(half.v, 1) ELSE half.v, exp |-> e + h + 1]

\* Number(x) / Number(factor), factor = 10^dec = 2^dec * 5^dec, dec the decimals of the asset
DoubleDiv(x, dec) ==
    IF x = 0 THEN [mant |-> <<>>, exp |-> 0]
    ELSE LET q == DivPow5(ShiftLeft(FromInt(x), ScaleBits), dec, FALSE)
         IN  RoundDouble(q.v, 0 - ScaleBits - dec, q.sticky)

\* amount * Number(factor)
DoubleMul(d, dec) ==
    LET p == MulPow10(d.mant, dec)
    IN  IF BitLen(p) <= MantBits THEN [mant |-> p, exp |-> d.exp]
        ELSE RoundDouble(p, d.exp, FALSE)

\* Math.floor of a non-negative double, as an integer
DoubleFloor(d) ==
    IF d.exp >= 0 THEN ToInt(ShiftLeft(d.mant, d.exp))
    ELSE ToInt(ShiftRight(d.mant, 0 - d.exp, FALSE).v)

\* fromContractAmount: (Number(contractAmount) / Number(factor)).toString().
\* The string is represented by the double it denotes: Number::toString
\* writes the shortest decimal that parseFloat reads back as the same double.
fromContractAmount(contractAmount, a) == DoubleDiv(contractAmount, getAssetDecimals(a))

\* toContractAmount: BigInt(Math.floor(parseFloat(humanAmount) * Number(factor)))
toContractAmount(humanAmount, a) == DoubleFloor(DoubleMul(humanAmount, getAssetDecimals(a)))

codecFrame == <<pipeVars, caller, hpc, walletVars, toasts, nextToastId, toastId,
                loading, errors, amount, formVarsBorrow, fromAsset, toAsset, balance,
                loads, screen, submitted, mockVars, sessionVars>>

\* a base amount is shown and read back
ConvertP(x, a) ==
    /\ screen = "codec"
    /\ probe' = [fn |-> "roundTrip", x |-> x, asset |-> a,
                 back |-> toContractAmount(fromContractAmount(x, a), a)]
    /\ UNCHANGED codecFrame

Convert == \E x \in 0..MaxBase, a \in CodecAssets : ConvertP(x, a)

InitCodec == PipeInit /\ ScreenInit("codec") /\ ~isConnected /\ ~freighterInstalled

SpecCodec == InitCodec /\ [][Convert]_vars

(***************************************************************************)
(* Properties of the facade functions, checked under Spec                  *)
(***************************************************************************)
\* C1: when simulateTransaction reports a simulation error, signTransaction
\* is never invoked and the call fails with the simulation's diagnostic
C1_SimulationErrorNeverSigns ==
    sim.kind = "error" =>
        /\ NumCalls("signTransaction") = 0
        /\ pc = "done"
        /\ result = Throw(<<SimulationFailedPrefix(op), sim.error>>)

\* a call that ended on a simulation error
C1_Witness == pc = "done" /\ sim.kind = "error" /\ op = "stake"

\* C2: when signing fails (the wallet reports an error, the user rejects, the
\* call to the wallet throws) or the wallet extension is absent,
\* sendTransaction is never invoked and the call fails
C2_SignFailureNeverSends ==
    /\ signed \in {"userRejected", "errorNoMessage", "throws"} =>
           /\ NumCalls("sendTransaction") = 0
           /\ pc = "done"
           /\ result.kind = "throw"
    /\ ~freighterInstalled =>
           /\ NumCalls("signTransaction") = 0
           /\ NumCalls("sendTransaction") = 0
           /\ (sim.kind = "success" =>
                  result = Throw(<<"Freighter wallet is not installed">>))

\* a call the user rejected in the wallet
C2_Witness ==
    pc = "done" /\ signed = "userRejected" /\ result = Throw(<<"User declined access">>)

\* C3 (as the specification states it): a poll that returns FAILED ends the
\* call at that poll, with an error that carries the response's
\* resultMetaXdr; no further getTransaction call is made
C3_FailedPollEndsCall ==
    lastPoll.status = "FAILED" =>
        /\ pc = "done"
        /\ result = Throw(<<"Transaction failed: ", lastPoll.meta>>)

\* C4: when no poll finds the transaction confirmed, waitForTransaction makes
\* exactly 30 getTransaction calls, each 1000 ms after the one before, and
\* then fails with the confirmation timeout; the timeout never follows
\* fewer polls and no call polls more often
C4_TimeoutAfterExactlyThirtyPolls ==
    /\ NumCalls("getTransaction") <= 30
    /\ NumCalls("getTransaction") >= 2 => pollGap = 1000
    /\ result = Throw(TimeoutError) => NumCalls("getTransaction") = 30
    /\ (pc = "done" /\ sent.status = "PENDING" /\ lastPoll.status # "SUCCESS") =>
           /\ result = Throw(TimeoutError)
           /\ NumCalls("getTransaction") = 30
           /\ clock = 30 * 1000

\* a call whose polls all found the transaction not yet visible
C4_Witness ==
    pc = "done" /\ result = Throw(TimeoutError) /\ ~failedSeen
    /\ lastPoll.status = "NOT_FOUND"

\* C6: when sendTransaction answers with a status other than PENDING, the
\* call fails with that status and getTransaction is never polled
C6_NotPendingNeverPolls ==
    sent.status \notin {"none", "PENDING"} =>
        /\ NumCalls("getTransaction") = 0
        /\ pc = "done"
        /\ result.kind = "throw"
        /\ (sent.status # "throws" =>
               result = Throw(<<"Transaction failed: ", sent.status>>))

\* a submission the server asked to retry later
C6_Witness == pc = "done" /\ sent.status = "TRY_AGAIN_LATER"

\* the order in which a facade function calls the wallet and the RPC server
StepOrder(i) ==
    CASE i = 1 -> "getNetwork"
      [] i = 2 -> "getAccount"
      [] i = 3 -> "simulateTransaction"
      [] i = 4 -> "signTransaction"
      [] i = 5 -> "sendTransaction"
      [] OTHER -> "getTransaction"

\* C7: the external calls of a facade call are made in the fixed order
\* getNetwork, getAccount, simulateTransaction, signTransaction,
\* sendTransaction, getTransaction polls, each only after the one before it
\* succeeded
C7_FixedCallOrder ==
    /\ \A i \in 1..Len(calls) : calls[i].fn = StepOrder(i)
    /\ Len(calls) >= 2 => network \in {"TESTNET", "PUBLIC"}
    /\ Len(calls) >= 4 => sim.kind = "success"
    /\ Len(calls) >= 5 => signed = "signed"
    /\ Len(calls) >= 6 => sent.status = "PENDING"
    /\ (Len(calls) >= 7 /\ pc = "poll") => lastPoll.status \notin {"none", "SUCCESS"}

\* a call that went through every step and polled twice
C7_Witness == Len(calls) = 7 /\ pc = "poll"

C9_AtMostOnce ==
    /\ NumCalls("getAccount") <= 1
    /\ NumCalls("simulateTransaction") <= 1
    /\ NumCalls("signTransaction") <= 1
    /\ NumCalls("sendTransaction") <= 1

\* a call whose one submission was refused
C9_Witness ==
    pc = "done" /\ sent.status = "ERROR" /\ NumCalls("sendTransaction") = 1

(***************************************************************************)
(* Properties of the screens                                               *)
(***************************************************************************)
\* C5 (as the specification states it): a swap whose confirmation timed out
\* is reported as of unknown outcome, with the transaction hash, and not as
\* a failed swap
C5_TimeoutReportedAsUnknown ==
    \A i \in DOMAIN toasts :
        (hpc = "idle" /\ caller = "handleSwap" /\ toasts[i].id = toastId
         /\ result = Throw(TimeoutError)) =>
            /\ toasts[i].type # "error"
            /\ toasts[i].hash = sent.hash

\* C10 (as the specification states it): a borrow handed to borrowFromBlend
\* has a projected health factor of at least 1.1
C10_BelowMinimumNeverSubmitted ==
    submitted.fn = "borrowFromBlend" => submitted.coll * 10 >= submitted.debt * 11


(***************************************************************************)
(* C11  While the wallet's active network differs from the configured      *)
(* network (TESTNET), no facade call reaches signTransaction or            *)
(* sendTransaction.  The facade functions read the wallet's network only   *)
(* to pick the RPC server and the passphrase, so the statement does not    *)
(* hold of them.                                                           *)
(***************************************************************************)
C11_MismatchBlocksSubmission ==
    network = "PUBLIC" =>
        /\ NumCalls("signTransaction") = 0
        /\ NumCalls("sendTransaction") = 0
C13_RejectedFormLeavesToasts ==
    [][ ( \/ handleSwap /\ SwapValidateForm # NoErrors
          \/ handleBorrow /\ BorrowValidateForm # NoErrors
          \/ handleStake /\ StakeValidateForm("stake") # NoErrors
          \/ handleUnstake /\ StakeValidateForm("unstake") # NoErrors )
        => /\ toasts' = toasts
           /\ nextToastId' = nextToastId
           /\ submitted' = submitted
           /\ hpc' = hpc
           /\ errors' # NoErrors ]_vars

\* a Stake form rejected by handleStake for an amount that is not a number,
\* with nothing in the notification queue
C13_Witness ==
    /\ screen = "stake"
    /\ amount = "."
    /\ errors.amount = "Amount must be greater than 0"
    /\ toasts = <<>>
    /\ nextToastId = 1
(***************************************************************************)
(* Properties of the wallet session, checked under SpecWallet              *)
(***************************************************************************)
\* C14: from any wallet session state (Disconnected, Connecting, Connected
\* or holding an error) disconnect() completes in the step it is called in,
\* without an error, and leaves isConnected false and the address, the
\* network and the selected wallet null.
C14_DisconnectClearsSession ==
    [][disconnect =>
          /\ isConnected' = FALSE
          /\ publicKey' = "null"
          /\ sessionNetwork' = "null"
          /\ walletId' = "null"
          /\ error' = "null"
          /\ lastQuery'.outcome = "return"]_vars

\* disconnect() was called while a connect() of the provider adapter was
\* awaiting the wallet's answer
C14_Witness ==
    /\ lastQuery.fn = "disconnect"
    /\ lastQuery.value = "Connecting"
    /\ adapter = "provider"
    /\ cpc = "requestAccess"
    /\ ~isConnected /\ publicKey = "null" /\ sessionNetwork = "null"

\* C15: a connect() that does not succeed ends with the session not
\* connected and an error value set, and connect() reports true to its
\* caller only in a step that leaves the session connected with the address
\* and the network populated.
C15_ConnectReportsOutcome ==
    [][ /\ (connectResult = "pending" /\ connectResult' = "true")
            => (isConnected' /\ publicKey' # "null" /\ sessionNetwork' # "null")
        /\ (connectResult = "pending" /\ connectResult' = "false")
            => (~isConnected' /\ error' # "null") ]_vars

\* C16: while the session is not connected, getAddress, getNetworkDetails
\* and signTransaction of the adapter throw 'Wallet not connected' and make
\* no call to the wallet; a value is returned only when connected.
C16_QueriesNeedConnection ==
    [][ (Query /\ ~isConnected)
            => /\ lastQuery'.outcome = "throw"
               /\ lastQuery'.value = NotConnectedError
               /\ lastQuery'.extCalls = 0 ]_vars

(***************************************************************************)
(* Properties of the toast queue, checked under SpecToast                  *)
(***************************************************************************)
\* the ids of a queue, in queue order
ToastIds(ts) == [i \in DOMAIN ts |-> ts[i].id]

\* C17: updateToast(id, updates) adds no entry, removes none and keeps the
\* order of the queue; the entries with another id are untouched; an entry
\* with the id holds the values of this (the latest) update in the fields the
\* update names and its previous values elsewhere, and there is exactly one
\* such entry; an id that is not in the queue leaves the queue as it was.
C17_UpdateToastInPlace ==
    [][ \A id \in 1..MaxShown, u \in UpdatePayloads :
          UpdateToastP(id, u) =>
            /\ Len(toasts') = Len(toasts)
            /\ ToastIds(toasts') = ToastIds(toasts)
            /\ \A i \in DOMAIN toasts :
                  IF toasts[i].id = id
                  THEN /\ \A f \in DOMAIN u : toasts'[i][f] = u[f]
                       /\ \A f \in DOMAIN toasts[i] \ DOMAIN u : toasts'[i][f] = toasts[i][f]
                       /\ Cardinality({j \in DOMAIN toasts' : toasts'[j].id = id}) = 1
                  ELSE toasts'[i] = toasts[i]
            /\ (\A i \in DOMAIN toasts : toasts[i].id # id) => toasts' = toasts ]_vars

\* the second of three toasts was updated twice with different payloads and
\* holds the title of the second update
C17_Witness ==
    /\ probe.fn = "updateToast"
    /\ probe.id = 2
    /\ probe.before # <<>>
    /\ probe.before[1].type = "success" /\ probe.updates.type = "error"
    /\ Len(toasts) = 3
    /\ toasts[2].id = 2 /\ toasts[2].title = probe.updates.title

(***************************************************************************)
(* Properties of the toasts of the operation screens, under SpecAppLive    *)
(***************************************************************************)
\* the toast a handler created is on screen with one of the given types
HandlerToastIs(types) ==
    \E i \in DOMAIN toasts : toasts[i].id = toastId /\ toasts[i].type \in types

\* C18: no timer removes a toast of type loading, and the toast a handler
\* has updated to success or error is eventually removed from the queue by
\* the timers alone (no fairness is assumed of the user's close button), on
\* every screen.
C18_ToastsAutoDismiss ==
    /\ [][ \A id \in 1..MaxToasts :
             ToastTimerFiresP(id) =>
               \A i \in DOMAIN toasts : toasts[i].id = id => toasts[i].type # "loading" ]_vars
    /\ HandlerToastIs({"success", "error"}) ~> ~HandlerToastIs({"success", "error", "loading"})

(***************************************************************************)
(* Properties of the contract invocations, checked under SpecApp           *)
(***************************************************************************)
OperationKinds == {"Stake", "Unstake", "Swap", "Supply", "Withdraw", "Borrow"}

\* the method table of the specification: method and ordered argument types
MethodTable(kind) ==
    CASE kind = "Stake"    -> [method |-> "stake_blend", facade |-> "stake",
                               types |-> <<"address", "u128">>]
      [] kind = "Unstake"  -> [method |-> "unstake_blend", facade |-> "unstake",
                               types |-> <<"address", "u128">>]
      [] kind = "Swap"     -> [method |-> "swap_tokens", facade |-> "swap",
                               types |-> <<"address", "address", "address", "u128", "u128", "u64">>]
      [] kind = "Supply"   -> [method |-> "supply_to_blend", facade |-> "supply",
                               types |-> <<"address", "address", "u128", "bool">>]
      [] kind = "Withdraw" -> [method |-> "withdraw_from_blend", facade |-> "withdraw",
                               types |-> <<"address", "address", "u128">>]
      [] kind = "Borrow"   -> [method |-> "borrow_from_blend", facade |-> "borrow",
                               types |-> <<"address", "address", "u128">>]

\* the toast of the running handler turns from loading to success
HandlerSucceeds == HandlerToastIs({"loading"}) /\ HandlerToastIs({"success"})'

\* the transactions of `method` simulated and sent by the call that just ended
Invocations(method) ==
    IF \E i \in DOMAIN calls : calls[i] = Call("simulateTransaction", method)
    THEN NumCalls("sendTransaction") ELSE 0

\* C19: every facade function invokes the method of its kind with the
\* argument types of the method table in order, the user's address first,
\* and an operation of any kind that a screen reports as done has been sent
\* as exactly one invocation of the method of its kind.
C19_OneMethodPerKind ==
    [][ /\ \A kind \in OperationKinds \ {"Withdraw"} :
             LET row == MethodTable(kind) IN
             /\ ContractMethod(row.facade) = row.method
             /\ [i \in DOMAIN ContractArgs(row.facade) |-> ContractArgs(row.facade)[i].type]
                    = row.types
             /\ ContractArgs(row.facade)[1] = ScVal("address", "userPublicKey")
        /\ HandlerSucceeds =>
             \A kind \in OperationKinds :
                 submitted.fn = ScreenFunction(kind)
                     => Invocations(MethodTable(kind).method) = 1 ]_vars

(***************************************************************************)
(* Properties of the amount conversion, checked under SpecCodec            *)
(***************************************************************************)
\* C20: for every supported asset a and every non-negative integer base
\* amount x, toContractAmount(fromContractAmount(x, a), a) = x.
C20_AmountRoundTrip ==
    probe.fn = "roundTrip" => probe.back = probe.x

(***************************************************************************)
(* Properties of the errors a screen receives, checked under SpecBorrow    *)
(***************************************************************************)
\* the value a facade call rejected with is an exception of the RPC client
\* or of the wallet SDK, passed on by `throw error`
RawException(res) == res.kind = "throw" /\ res.value # <<>> /\ res.value[1] = "raw"

\* C21: whenever the handler of a screen receives the failure of the facade
\* call it awaits, at whichever step the call failed, the value it catches
\* is an error made by the facade, never the exception of the RPC client or
\* of the wallet SDK itself.
C21_NoRawExceptionReachesScreen ==
    (hpc = "facade" /\ pc = "done") => ~RawException(result)

(***************************************************************************)
(* Properties of the loading flag, checked under SpecAppFair               *)
(***************************************************************************)
\* C22: when no handler is running (none was started, or the last run has
\* finished by a validation failure, an error of the pipeline or success)
\* the loading flag is false, so that a new action can be started; and a
\* screen that is loading eventually is not: no outcome of an action leaves
\* the screen in the loading state for ever.
C22_HandlerEndsNotLoading ==
    /\ [](hpc = "idle" => ~loading)
    /\ loading ~> (~loading /\ hpc = "idle")

\* a swap ended with an error of the pipeline and the screen is usable again
C22_Witness ==
    /\ screen = "swap"
    /\ submitted.fn = "swapTokens"
    /\ hpc = "idle" /\ ~loading
    /\ \E i \in DOMAIN toasts : toasts[i].type = "error"

(***************************************************************************)
(* Properties of the poll loop, checked under Spec                         *)
(***************************************************************************)
\* a poll that did not find the transaction yet: getTransaction threw, or
\* answered with a status that is not terminal
NotYetVisible(resp) == resp.status \in {"throws", "NOT_FOUND"}

\* C23: a poll that finds the transaction not yet visible is not a failure:
\* the call goes on to the timer and its outcome stays open; and when the
\* k-th poll is the first to answer SUCCESS, all earlier ones having found
\* the transaction not yet visible, the call ends with success in that step
\* after exactly k getTransaction calls, k <= 30.
C23_NotVisiblePollIsRetried ==
    [][ \A resp \in PollOutcomes :
          PollReturnsP(resp) =>
            /\ NotYetVisible(resp) =>
                  /\ pc' = "sleep"
                  /\ result' = NoResult
                  /\ calls' = calls
            /\ (resp.status = "SUCCESS" /\ ~failedSeen) =>
                  /\ pc' = "done"
                  /\ result'.kind = "return"
                  /\ NumCalls("getTransaction") = attempts + 1
                  /\ attempts + 1 <= maxAttempts ]_vars

\* the 30th poll was the first to answer SUCCESS
C23_Witness ==
    /\ pc = "done"
    /\ result.kind = "return"
    /\ lastPoll.status = "SUCCESS"
    /\ ~failedSeen
    /\ attempts = maxAttempts_29
    /\ NumCalls("getTransaction") = maxAttempts

(***************************************************************************)
(* Properties of the session under interleavings, checked under SpecWallet *)
(***************************************************************************)
\* C24: between any two event-loop turns, under any interleaving of
\* connect(), disconnect() and the connection check made at start-up,
\* isConnected holds exactly when the address is set, and the network is
\* set whenever isConnected holds.
C24_SessionFieldsAgree ==
    /\ isConnected <=> publicKey # "null"
    /\ isConnected => sessionNetwork # "null"

\* the session is in the Connecting state: a connect() was started and the
\* Connect button is disabled by isLoading
Connecting == ~isConnected /\ isLoading

\* C25: every connect() attempt leaves the Connecting state, whatever the
\* wallet does: the session eventually is Connected with the address set,
\* or not connected with isLoading false.
C25_ConnectingEnds ==
    Connecting ~> (\/ isConnected /\ publicKey # "null"
                   \/ ~isConnected /\ ~isLoading)

\* C26: a disconnect() that ran while a connect() was awaiting the wallet
\* is not overridden: as long as no new connect() was started, the
\* completion of the earlier connect() does not set isConnected.
C26_DisconnectNotOverridden ==
    [][ ( /\ lastQuery.fn = "disconnect"
          /\ lastQuery.value = "Connecting"
          /\ (ConnectGetNetworkReturns \/ KitGetAddressReturns) )
        => ~isConnected' ]_vars


(***************************************************************************)
(* A screen under the page header.  App.tsx renders WalletConnect above    *)
(* the routes, so the Disconnect button of the header can be pressed while *)
(* a handler of the screen awaits its facade call.                         *)
(***************************************************************************)
\* the id of the toast disconnect() shows on a screen
DisconnectToastId == MaxToasts + 1

\* the Disconnect button of the header on a screen: disconnect() of the kit
\* adapter, then the effects the new session re-runs (loadBalance on Swap,
\* loadUserData on Borrow, both taking their not-connected branch)
SessionDisconnect ==
    /\ screen \in {"swap", "borrow"}
    /\ ~Resuming
    /\ isConnected
    /\ DisconnectedSession
    /\ toasts' = showToast(toasts,
                    createToast(DisconnectToastId, "info", "Wallet Disconnected",
                                "You have disconnected your wallet."))
    /\ lastQuery' = [fn |-> "disconnect", outcome |-> "return",
                     value |-> SessionState, extCalls |-> 0]
    /\ IF screen = "swap"
       THEN /\ balance' = 0
            /\ UNCHANGED formVarsBorrow
       ELSE /\ userPosition' = NoPosition
            /\ maxBorrowable' = 0
            /\ projectedHealth' = NoHealth
            /\ UNCHANGED <<asset, balance>>
    /\ UNCHANGED <<pipeVars, caller, hpc, nextToastId, toastId, loading, errors,
                   amount, fromAsset, toAsset, loads, screen, submitted, mockVars,
                   probe, adapter, walletId, isLoading, cpc, connectResult, modal>>

\* the toast of disconnect() times out or is closed
DisconnectToastGone == ToastTimerFiresP(DisconnectToastId)

InitSession == PipeInit /\ \E scr \in {"swap", "borrow"} : ScreenInit(scr)

NextSession ==
    \/ NextSwap
    \/ NextBorrow
    \/ SessionDisconnect
    \/ DisconnectToastGone

SpecSession == InitSession /\ [][NextSession]_vars

\* C27: once the wallet session is cleared, the facade call that was in
\* flight issues no further signTransaction and no further sendTransaction
C27_NoSignatureAfterDisconnect ==
    [][ ~isConnected =>
          /\ NumCalls("signTransaction")' <= NumCalls("signTransaction")
          /\ NumCalls("sendTransaction")' <= NumCalls("sendTransaction") ]_vars


\* C28: when the last balance load in flight completes and it was started
\* for an asset that is no longer the selected one, or for an account that
\* has since disconnected, its response leaves the displayed balance as it is
C28_LateLoadKeepsCurrent ==
    [][ \A a \in Assets, b \in BalanceValues :
          (LoadBalanceReturnsP(a, b) /\ loads = {a} /\ (a # fromAsset \/ ~isConnected))
              => balance' = balance ]_vars


\* a handler of the mounted screen has been started and has not finished
InFlight == hpc # "idle"

\* the clicks that run a handler which calls an operation
Triggers ==
    \/ handleSwap
    \/ handleBorrow
    \/ handleStake
    \/ handleUnstake
    \/ handleSupply
    \/ handleWithdraw

C30_BorrowNeedsNumericHealth ==
    [][ (handleBorrow /\ hpc' = "facade") =>
          /\ projectedHealth.kind = "number"
          /\ projectedHealth = calculateProjectedHealth(userPosition, asset, amount)
          /\ ~belowMinimum(projectedHealth) ]_vars

====
